---- MODULE Spec2Model ----
(***************************************************************************)
(* Dungeon layout generation of chasm (src/src/map.rs): generate_map and   *)
(* add_stairs as run by TileMap::new / TileMap::new_level.                 *)
(*                                                                         *)
(* A position is the pair <<x, y>>.  The tile array is held sparsely:      *)
(* `tiles` maps exactly the cells that are not Wall to their TileType, and *)
(* every other cell of the MAP_WIDTH x MAP_HEIGHT array is Wall (the array *)
(* starts all Wall, map.rs:426).  An Option is <<>> for None and the value *)
(* itself for Some.                                                        *)
(*                                                                         *)
(* Random draws are choices (\E).  A range is explored at both of its ends *)
(* and its middle, a match over a percentage at one value per arm, and a   *)
(* run departs from the lowest value of a draw at most MaxDeviations times.*)
(***************************************************************************)
EXTENDS Integers, Sequences, FiniteSets, TLC

MAP_WIDTH == 45
MAP_HEIGHT == 25

\* generate_rooms: the attempt ceiling
max_attempts == 100

\* add_secret_rooms: the attempt ceiling per secret room
max_secret_attempts == 50

\* Bounds of the exploration.
MaxDeviations == 2
MaxLevel == 1

\* usize is unsigned: a negative i32 cast to usize is far above every
\* coordinate.  UsizeWrap stands for 2^64 (TLC's integers are 32 bit wide).
UsizeWrap == 2 ^ 30

AsUsize(v) == IF v < 0 THEN v + UsizeWrap ELSE v

None == <<>>

Least(S) == CHOOSE v \in S : \A u \in S : v <= u

Min(a, b) == IF a < b THEN a ELSE b

Max(a, b) == IF a > b THEN a ELSE b

Abs(a) == IF a < 0 THEN -a ELSE a

(***************************************************************************)
(* The random source.  GenRange(lo, hi) is rng.gen_range(lo..hi): a value  *)
(* of lo..hi-1, explored in full when it has at most four values and at   *)
(* lo, the middle and hi-1 otherwise.                                      *)
(***************************************************************************)
GenRange(lo, hi) ==
    IF hi - lo <= 4 THEN lo .. hi - 1 ELSE {lo, (lo + hi - 1) \div 2, hi - 1}

GenRangeBeyond(lo, hi, pts) == GenRange(lo, hi + 2)

\* gen_range(lo..hi) explored at the values of GenRange and at those of pts
GenRangeAt(lo, hi, pts) == GenRange(lo, hi) \cup (pts \cap (lo .. hi - 1))

\* rng.gen_range(lo..=hi)
GenRangeInclusive(lo, hi) == GenRange(lo, hi + 1)

\* gen_range(lo..hi) where every value of the range is explored
GenRangeFull(lo, hi) == lo .. hi - 1

\* rng.gen_bool(p), 0 < p < 1
GenBool == {FALSE, TRUE}

\* What a draw costs of the deviation budget: nothing at its lowest value.
Dev(v, S) == IF v = Least(S) THEN 0 ELSE 1

DevBool(b) == IF b THEN 1 ELSE 0

\* The values of S a run with `left` deviations to spend may draw.
Within(S, left) == IF left > 0 THEN S ELSE IF S = {} THEN {} ELSE {Least(S)}

WithinBool(left) == IF left > 0 THEN GenBool ELSE {FALSE}

(***************************************************************************)
(* Tiles                                                                   *)
(***************************************************************************)
TileType == {"Floor", "Wall", "Door", "SecretDoor", "StairsDown", "StairsUp"}

BiomeType == <<"Caves", "Groves", "Labyrinth", "Catacombs">>

Cells == (0 .. MAP_WIDTH - 1) \X (0 .. MAP_HEIGHT - 1)

\* tiles[y][x]
At(t, x, y) == IF <<x, y>> \in DOMAIN t THEN t[<<x, y>>] ELSE "Wall"

\* tiles[y][x] = v for every cell <<x, y>> of S
Put(t, S, v) ==
    IF v = "Wall"
    THEN [c \in (DOMAIN t) \ S |-> t[c]]
    ELSE [c \in (DOMAIN t) \cup S |-> IF c \in S THEN v ELSE t[c]]

\* the guard of every carving write: y > 0 && y < MAP_HEIGHT - 1 && x > 0 && x < MAP_WIDTH - 1
Interior(x, y) == y > 0 /\ y < MAP_HEIGHT - 1 /\ x > 0 /\ x < MAP_WIDTH - 1

(***************************************************************************)
(* Room                                                                    *)
(***************************************************************************)
Room(x, y, width, height, room_type) ==
    [x |-> x, y |-> y, width |-> width, height |-> height, room_type |-> room_type]

size_by_width(r) ==
    IF r.width < 6 THEN "Small" ELSE IF r.width < 12 THEN "Medium" ELSE "Large"

size(r) ==
    LET area == r.width * r.height
    IN  IF area < 36 THEN "Small" ELSE IF area < 81 THEN "Medium" ELSE "Large"

center(r) == <<r.x + r.width \div 2, r.y + r.height \div 2>>

overlaps_adjacent(self, other) ==
    LET self_x2 == self.x + self.width
        self_y2 == self.y + self.height
        other_x2 == other.x + other.width
        other_y2 == other.y + other.height
    IN  ~(self_x2 < other.x \/ self.x > other_x2 \/
          self_y2 < other.y \/ self.y > other_y2)

overlaps(self, other) ==
    LET self_x2 == self.x + self.width + 1
        self_y2 == self.y + self.height + 1
        other_x2 == other.x + other.width + 1
        other_y2 == other.y + other.height + 1
    IN  ~(self_x2 < other.x \/ self.x > other_x2 \/
          self_y2 < other.y \/ self.y > other_y2)

\* the cells x0..x1-1 by y0..y1-1 that pass the interior guard
Box(x0, x1, y0, y1) ==
    {c \in (x0 .. x1 - 1) \X (y0 .. y1 - 1) : Interior(c[1], c[2])}

carve_rectangular(r, t) ==
    Put(t, Box(r.x, r.x + r.width, r.y, r.y + r.height), "Floor")

\* dx*dx + dy*dy <= 1.0 with dx = (x - center_x) / (width / 2.0) and
\* dy = (y - center_y) / (height / 2.0), cleared of its denominators.  No
\* room of the sizes drawn has a cell with both offsets nonzero on the
\* ellipse itself, so rounding in f32 never decides the comparison.
carve_circular(r, t) ==
    LET c == center(r)
        inside(p) ==
            4 * (p[1] - c[1]) * (p[1] - c[1]) * r.height * r.height
          + 4 * (p[2] - c[2]) * (p[2] - c[2]) * r.width * r.width
            <= r.width * r.width * r.height * r.height
    IN  Put(t, {p \in Box(r.x, r.x + r.width, r.y, r.y + r.height) : inside(p)}, "Floor")

carve_cross_shaped(r, t) ==
    LET third_width == r.width \div 3
        third_height == r.height \div 3
    IN  Put(t, Box(r.x, r.x + r.width, r.y + third_height, r.y + 2 * third_height)
               \cup Box(r.x + third_width, r.x + 2 * third_width, r.y, r.y + r.height),
            "Floor")

carve_l_shaped(r, t) ==
    LET half_width == r.width \div 2
        half_height == r.height \div 2
    IN  Put(t, Box(r.x, r.x + r.width, r.y, r.y + half_height)
               \cup Box(r.x, r.x + half_width, r.y + half_height, r.y + r.height),
            "Floor")

\* carve_pillared, one pass of its loop: the 2x2 pillar at (pillar_x, pillar_y)
carve_pillar(t, pillar_x, pillar_y) ==
    Put(t, {c \in (pillar_x .. pillar_x + 1) \X (pillar_y .. pillar_y + 1) :
                c[2] < MAP_HEIGHT /\ c[1] < MAP_WIDTH}, "Wall")

carve_small_chamber_any_size(r, t) ==
    Put(carve_rectangular(r, t), {<<r.x + r.width - 1, r.y>>}, "Wall")

carve_small_chamber(r, t) ==
    LET t1 == carve_rectangular(r, t)
        corner_x == r.x + r.width - 1
        corner_y == r.y
    IN  IF r.width >= 4 /\ r.height >= 4 /\ corner_x < MAP_WIDTH /\ corner_y < MAP_HEIGHT
        THEN Put(t1, {<<corner_x, corner_y>>}, "Wall")
        ELSE t1

add_central_feature(r, t, feature_size) ==
    LET c == center(r)
        half == feature_size \div 2
    IN  Put(t, {p \in (c[1] - half .. c[1] + half) \X (c[2] - half .. c[2] + half) :
                    Interior(p[1], p[2])}, "Wall")

\* add_columns: the grid it walks, and one pass of its inner loop
columns_per_row(r) == Max(r.width \div 4, 2)

columns_per_col(r) == Max(r.height \div 4, 2)

add_column(r, t, col_idx, row_idx, random_offset_x, random_offset_y) ==
    LET x_spacing == r.width \div columns_per_row(r)
        y_spacing == r.height \div columns_per_col(r)
        column_x == AsUsize(r.x + col_idx * x_spacing + random_offset_x)
        column_y == AsUsize(r.y + row_idx * y_spacing + random_offset_y)
    IN  IF Interior(column_x, column_y)
        THEN Put(t, {<<column_x, column_y>>}, "Wall")
        ELSE t

add_divider(r, t, is_horizontal) ==
    IF is_horizontal
    THEN LET divider_y == r.y + r.height \div 2
             gap_start == r.x + r.width \div 3
             gap_end == r.x + (2 * r.width) \div 3
         IN  Put(t, {<<x, divider_y>> : x \in
                        {v \in r.x + 1 .. r.x + r.width - 2 :
                            (v < gap_start \/ v > gap_end) /\ divider_y < MAP_HEIGHT}},
                 "Wall")
    ELSE LET divider_x == r.x + r.width \div 2
             gap_start == r.y + r.height \div 3
             gap_end == r.y + (2 * r.height) \div 3
         IN  Put(t, {<<divider_x, y>> : y \in
                        {v \in r.y + 1 .. r.y + r.height - 2 :
                            (v < gap_start \/ v > gap_end) /\ divider_x < MAP_WIDTH}},
                 "Wall")

\* Room::carve up to the first random draw of the shape
carve(r, t) ==
    CASE r.room_type = "Rectangular" -> carve_rectangular(r, t)
      [] r.room_type = "Circular" -> carve_circular(r, t)
      [] r.room_type = "CrossShaped" -> carve_cross_shaped(r, t)
      [] r.room_type = "LShaped" -> carve_l_shaped(r, t)
      [] r.room_type = "Pillared" -> carve_rectangular(r, t)
      [] r.room_type = "SmallChamber" -> carve_small_chamber(r, t)
      [] r.room_type = "LargeHall" -> carve_rectangular(r, t)


(***************************************************************************)
(* State                                                                   *)
(*   pc             where the generation call stands                       *)
(*                  (current_level is None until the TileMap is built)     *)
(*   frame          the local variables of the function that is running    *)
(*   tiles .. current_level   the fields of TileMap (locals of generate_map*)
(*                  until the TileMap is built)                            *)
(*   deviations     draws so far that were not the lowest value            *)
(*   twin           a second, independent run of the pipeline that is fed  *)
(*                  the same values by the injected random source; only    *)
(*                  followed when twin.on                                  *)
(*   extra_corridors  the corridors add_extra_corridors has started in     *)
(*                  this generation                                        *)
(* State of the running game (in the game, pc is the system that runs next *)
(* and tiles .. current_level are the TileMap resource)                    *)
(*   dungeon_state  DungeonState: levels (index k at position k + 1) and   *)
(*                  current_level_index                                    *)
(*   players        the Player entities: Position, the cell of the         *)
(*                  Transform, PlayerAnimation                             *)
(*   tile_entities  the spawned sets of Tile entities, each as the tiles   *)
(*                  it was spawned from                                    *)
(*   input_state    InputState                                             *)
(*   animation_state  AnimationState                                       *)
(*   keyboard       Input<KeyCode>: pressed and just_pressed               *)
(*   commands       the commands queued in this pass, not yet applied      *)
(***************************************************************************)
VARIABLES pc, frame, tiles, rooms, biomes, spawn_position,
          down_stairs_pos, up_stairs_pos, current_level, deviations, twin,
          extra_corridors,
          dungeon_state, players, tile_entities, input_state,
          animation_state, keyboard, commands

\* the resources and entities of the running App (main.rs): they are
\* created by setup and spawn_game_world and untouched by the generation
app == <<dungeon_state, players, tile_entities, input_state,
         animation_state, keyboard, commands>>

vars == <<pc, frame, tiles, rooms, biomes, spawn_position,
          down_stairs_pos, up_stairs_pos, current_level, deviations, twin,
          extra_corridors, app>>

NoFrame == [fn |-> "none"]

Left == MaxDeviations - deviations

\* let mut tiles = [[TileType::Wall; MAP_WIDTH]; MAP_HEIGHT]
AllWall == [c \in {} |-> "Wall"]

\* let mut biomes = [[BiomeType::Caves; MAP_WIDTH]; MAP_HEIGHT]
AllCaves == [c \in Cells |-> "Caves"]

TwinOf(on) ==
    [on |-> on, tiles |-> AllWall, rooms |-> <<>>, biomes |-> AllCaves,
     spawn_position |-> None, down_stairs_pos |-> None, up_stairs_pos |-> None]

\* #[derive(Resource, Default)] InputState: the fields a system reads
DefaultInputState ==
    [up |-> FALSE, down |-> FALSE, left |-> FALSE, right |-> FALSE,
     interact |-> FALSE, regenerate_map |-> FALSE, continuous_movement |-> FALSE]

\* a generation on its own, outside a running App
NoApp ==
    /\ dungeon_state = [levels |-> <<>>, current_level_index |-> 0]
    /\ players = <<>>
    /\ tile_entities = <<>>
    /\ input_state = DefaultInputState
    /\ animation_state = [animation_in_progress |-> FALSE]
    /\ keyboard = [pressed |-> {}, just_pressed |-> {}]
    /\ commands = <<>>

\* TileMap::new() (level 0) or TileMap::new_level(level, previous_map), on
\* entry to generate_map
InitWith(on) ==
    /\ pc = "generate_map"
    /\ frame = NoFrame
    /\ tiles = AllWall
    /\ rooms = <<>>
    /\ biomes = AllCaves
    /\ spawn_position = None
    /\ down_stairs_pos = None
    /\ up_stairs_pos = None
    /\ current_level = None
    /\ deviations = 0
    /\ twin = TwinOf(on)
    /\ extra_corridors = 0
    /\ NoApp

Init == InitWith(FALSE)

InitTwin == InitWith(TRUE)

\* Both runs apply the same step to their own state.
SetTiles(Op(_)) ==
    /\ tiles' = Op(tiles)
    /\ twin' = IF twin.on THEN [twin EXCEPT !.tiles = Op(twin.tiles)] ELSE twin

SetRooms(Op(_)) ==
    /\ rooms' = Op(rooms)
    /\ twin' = IF twin.on THEN [twin EXCEPT !.rooms = Op(twin.rooms)] ELSE twin

Spend(cost) == deviations' = deviations + cost

(***************************************************************************)
(* generate_rooms                                                          *)
(***************************************************************************)
SizeRolls == {0, 21, 61}

size_category(roll) ==
    IF roll <= 20 THEN "Large" ELSE IF roll <= 60 THEN "Medium" ELSE "Small"

DimRange(category) ==
    CASE category = "Large" -> GenRange(10, 15)
      [] category = "Medium" -> GenRange(6, 10)
      [] category = "Small" -> GenRange(3, 6)

TypeRolls(category) ==
    CASE category = "Large" -> {0, 41, 61, 81}
      [] category = "Medium" -> {0, 31, 51, 71, 91}
      [] category = "Small" -> {0, 61, 91}

room_type_of(category, roll) ==
    CASE category = "Large" ->
            IF roll <= 40 THEN "Rectangular"
            ELSE IF roll <= 60 THEN "Pillared"
            ELSE IF roll <= 80 THEN "CrossShaped"
            ELSE "LargeHall"
      [] category = "Medium" ->
            IF roll <= 30 THEN "Rectangular"
            ELSE IF roll <= 50 THEN "Circular"
            ELSE IF roll <= 70 THEN "LShaped"
            ELSE IF roll <= 90 THEN "Pillared"
            ELSE "CrossShaped"
      [] category = "Small" ->
            IF roll <= 60 THEN "Rectangular"
            ELSE IF roll <= 90 THEN "Circular"
            ELSE "SmallChamber"

\* the x at which a candidate stands one and two cells right of an accepted room
BesideRooms(rs) ==
    UNION {{rs[i].x + rs[i].width + 1, rs[i].x + rs[i].width + 2} : i \in 1 .. Len(rs)}

has_overlap_with_itself(new_room, rs) ==
    \E i \in 1 .. Len(rs) + 1 : overlaps(new_room, Append(rs, new_room)[i])

\* the loop over &rooms that sets has_overlap
has_overlap(new_room, rs) ==
    \E i \in 1 .. Len(rs) : overlaps(new_room, rs[i])

\* if !has_overlap { rooms.push(new_room) }
push_room(rs, new_room) ==
    IF has_overlap(new_room, rs) THEN rs ELSE Append(rs, new_room)

generate_rooms_begin ==
    /\ pc = "generate_map"
    /\ \E num_rooms \in Within(GenRange(20, 30), Left) :
          /\ frame' = [fn |-> "generate_rooms", num_rooms |-> num_rooms, attempts |-> 0]
          /\ Spend(Dev(num_rooms, GenRange(20, 30)))
    /\ pc' = "generate_rooms"
    /\ UNCHANGED <<tiles, rooms, biomes, spawn_position, down_stairs_pos,
                   up_stairs_pos, current_level, twin, extra_corridors, app>>

generate_rooms_attempt ==
    /\ pc = "generate_rooms"
    /\ Len(rooms) < frame.num_rooms /\ frame.attempts < max_attempts
    /\ \E size_roll \in Within(SizeRolls, Left) :
       LET category == size_category(size_roll)
           l1 == Left - Dev(size_roll, SizeRolls)
       IN
       \E room_width \in Within(DimRange(category), l1) :
       LET l2 == l1 - Dev(room_width, DimRange(category)) IN
       \E room_height \in Within(DimRange(category), l2) :
       LET l3 == l2 - Dev(room_height, DimRange(category))
           xs == GenRangeAt(1, MAP_WIDTH - room_width - 1, BesideRooms(rooms))
           ys == GenRange(1, MAP_HEIGHT - room_height - 1)
       IN
       \E room_x \in Within(xs, l3) :
       LET l4 == l3 - Dev(room_x, xs) IN
       \E room_y \in Within(ys, l4) :
       LET l5 == l4 - Dev(room_y, ys) IN
       \E type_roll \in Within(TypeRolls(category), l5) :
       LET l6 == l5 - Dev(type_roll, TypeRolls(category))
           new_room == Room(room_x, room_y, room_width, room_height,
                            room_type_of(category, type_roll))
       IN
          /\ SetRooms(LAMBDA rs : push_room(rs, new_room))
          /\ Spend(Left - l6)
    /\ frame' = [frame EXCEPT !.attempts = frame.attempts + 1]
    /\ UNCHANGED <<pc, tiles, biomes, spawn_position, down_stairs_pos,
                   up_stairs_pos, current_level, extra_corridors, app>>

generate_rooms_return ==
    /\ pc = "generate_rooms"
    /\ ~(Len(rooms) < frame.num_rooms /\ frame.attempts < max_attempts)
    /\ pc' = "carve"
    /\ frame' = [fn |-> "carve", i |-> 1]
    /\ UNCHANGED <<tiles, rooms, biomes, spawn_position, down_stairs_pos,
                   up_stairs_pos, current_level, deviations, twin, extra_corridors, app>>

(***************************************************************************)
(* generate_map: for room in &rooms { room.carve(&mut tiles, rng) }        *)
(***************************************************************************)
NextRoom == [fn |-> "carve", i |-> frame.i + 1]

carve_room ==
    /\ pc = "carve"
    /\ frame.i <= Len(rooms)
    /\ LET r == rooms[frame.i] IN
       CASE r.room_type = "Pillared" /\ ~(r.width < 7 \/ r.height < 7) ->
               \E num_pillars \in Within(GenRangeInclusive(1, 4), Left) :
                  /\ SetTiles(LAMBDA t : carve(r, t))
                  /\ Spend(Dev(num_pillars, GenRangeInclusive(1, 4)))
                  /\ pc' = "carve_pillared"
                  /\ frame' = [fn |-> "carve_pillared", i |-> frame.i, left |-> num_pillars]
         [] r.room_type = "LargeHall" /\ ~(r.width < 8 \/ r.height < 8) ->
               \E feature \in Within(GenRange(0, 4), Left) :
               LET l1 == Left - Dev(feature, GenRange(0, 4)) IN
               CASE feature = 0 ->
                       \E feature_size \in Within(GenRangeInclusive(1, 3), l1) :
                          /\ SetTiles(LAMBDA t : add_central_feature(r, carve(r, t), feature_size))
                          /\ Spend(Left - l1 + Dev(feature_size, GenRangeInclusive(1, 3)))
                          /\ pc' = "carve"
                          /\ frame' = NextRoom
                 [] feature = 1 ->
                       /\ SetTiles(LAMBDA t : carve(r, t))
                       /\ Spend(Left - l1)
                       /\ pc' = "add_columns"
                       /\ frame' = [fn |-> "add_columns", i |-> frame.i,
                                    col_idx |-> 1, row_idx |-> 1]
                 [] feature = 2 ->
                       \E coin \in IF r.width = r.height THEN WithinBool(l1) ELSE {FALSE} :
                       LET is_horizontal == r.width > r.height \/ (r.width = r.height /\ coin)
                       IN /\ SetTiles(LAMBDA t : add_divider(r, carve(r, t), is_horizontal))
                          /\ Spend(Left - l1 + DevBool(coin))
                          /\ pc' = "carve"
                          /\ frame' = NextRoom
                 [] OTHER ->
                       /\ SetTiles(LAMBDA t : carve(r, t))
                       /\ Spend(Left - l1)
                       /\ pc' = "carve"
                       /\ frame' = NextRoom
         [] OTHER ->
               /\ SetTiles(LAMBDA t : carve(r, t))
               /\ pc' = "carve"
               /\ frame' = NextRoom
               /\ UNCHANGED deviations
    /\ UNCHANGED <<rooms, biomes, spawn_position, down_stairs_pos,
                   up_stairs_pos, current_level, extra_corridors, app>>

\* carve_pillared: for _ in 0..num_pillars
carve_pillared ==
    /\ pc = "carve_pillared"
    /\ LET r == rooms[frame.i]
           xs == GenRange(r.x + 2, r.x + r.width - 2)
           ys == GenRange(r.y + 2, r.y + r.height - 2)
       IN
       \E pillar_x \in Within(xs, Left) :
       LET l1 == Left - Dev(pillar_x, xs) IN
       \E pillar_y \in Within(ys, l1) :
          /\ SetTiles(LAMBDA t : carve_pillar(t, pillar_x, pillar_y))
          /\ Spend(Left - l1 + Dev(pillar_y, ys))
    /\ IF frame.left > 1
       THEN pc' = pc /\ frame' = [frame EXCEPT !.left = frame.left - 1]
       ELSE pc' = "carve" /\ frame' = NextRoom
    /\ UNCHANGED <<rooms, biomes, spawn_position, down_stairs_pos,
                   up_stairs_pos, current_level, extra_corridors, app>>

\* add_columns: for col_idx in 1..columns_per_row { for row_idx in 1..columns_per_col
add_columns ==
    /\ pc = "add_columns"
    /\ LET r == rooms[frame.i]
           offs == GenRangeInclusive(-1, 1)
       IN
       /\ \E random_offset_x \in Within(offs, Left) :
          LET l1 == Left - Dev(random_offset_x, offs) IN
          \E random_offset_y \in Within(offs, l1) :
             /\ SetTiles(LAMBDA t : add_column(r, t, frame.col_idx, frame.row_idx,
                                               random_offset_x, random_offset_y))
             /\ Spend(Left - l1 + Dev(random_offset_y, offs))
       /\ IF frame.row_idx + 1 < columns_per_col(r)
          THEN pc' = pc /\ frame' = [frame EXCEPT !.row_idx = frame.row_idx + 1]
          ELSE IF frame.col_idx + 1 < columns_per_row(r)
          THEN pc' = pc /\ frame' = [frame EXCEPT !.col_idx = frame.col_idx + 1, !.row_idx = 1]
          ELSE pc' = "carve" /\ frame' = NextRoom
    /\ UNCHANGED <<rooms, biomes, spawn_position, down_stairs_pos,
                   up_stairs_pos, current_level, extra_corridors, app>>

carve_done ==
    /\ pc = "carve"
    /\ frame.i > Len(rooms)
    /\ pc' = "connect_rooms"
    /\ frame' = NoFrame
    /\ UNCHANGED <<tiles, rooms, biomes, spawn_position, down_stairs_pos,
                   up_stairs_pos, current_level, deviations, twin, extra_corridors, app>>

(***************************************************************************)
(* Corridors                                                               *)
(***************************************************************************)
create_horizontal_corridor(t, x1, x2, y) ==
    Put(t, {<<x, y>> : x \in {v \in Min(x1, x2) .. Max(x1, x2) : Interior(v, y)}}, "Floor")

create_vertical_corridor(t, y1, y2, x) ==
    Put(t, {<<x, y>> : y \in {v \in Min(y1, y2) .. Max(y1, y2) : Interior(x, v)}}, "Floor")

create_corridor(t, start_x, start_y, end_x, end_y) ==
    create_vertical_corridor(
        create_horizontal_corridor(t, start_x, end_x, start_y), start_y, end_y, end_x)

\* create_z_corridor: the middle before its random offset
z_mid_x(start_x, end_x) ==
    IF start_x < end_x
    THEN start_x + (end_x - start_x) \div 2
    ELSE end_x + (start_x - end_x) \div 2

\* create_z_corridor with the middle already offset
create_z_corridor(t, start_x, start_y, end_x, end_y, mid_x) ==
    create_horizontal_corridor(
        create_vertical_corridor(
            create_horizontal_corridor(t, start_x, mid_x, start_y),
            start_y, end_y, mid_x),
        mid_x, end_x, end_y)

\* the target of one segment of a winding or branching corridor, before its offset
halfway(current, end) ==
    IF current < end
    THEN current + (end - current) \div 2
    ELSE current - (current - end) \div 2

\* whether the target gets a random offset
jittered(target, limit) == target > 5 /\ target < limit - 5

distance(start, end) == Abs(start[1] - end[1]) + Abs(start[2] - end[2])

Directions == <<<<1, 0>>, <<-1, 0>>, <<0, 1>>, <<0, -1>>>>

outside_ring(x, y) ==
    x < 0 \/ x > MAP_WIDTH - 1 \/ y < 0 \/ y > MAP_HEIGHT - 1

\* the test that ends a branch or an extra corridor
outside_interior(x, y) ==
    x <= 0 \/ x >= MAP_WIDTH - 1 \/ y <= 0 \/ y >= MAP_HEIGHT - 1

\* a run of at most n cells from <<x, y>> (i32) in direction d that stops at
\* the first cell outside the interior (the `break`)
Run(x, y, d, n) ==
    {<<x + d[1] * i, y + d[2] * i>> : i \in
        {k \in 1 .. n : \A j \in 1 .. k : ~outside_interior(x + d[1] * j, y + d[2] * j)}}

add_corridor_alcove(t, x, y, direction, alcove_size) ==
    LET at(i) == <<AsUsize(x + direction[1] * i), AsUsize(y + direction[2] * i)>>
        reached == {k \in 1 .. alcove_size : \A j \in 1 .. k : Interior(at(j)[1], at(j)[2])}
        side_dir == <<direction[2], direction[1]>>
        sides(i) == {c \in {<<AsUsize(at(i)[1] + side_dir[1] * j),
                              AsUsize(at(i)[2] + side_dir[2] * j)>> : j \in {-1, 1}} :
                        Interior(c[1], c[2])}
    IN  Put(t, {at(i) : i \in reached}
               \cup UNION {sides(i) : i \in {k \in reached : k > 1}}, "Floor")

add_corridor_pillar(t, x, y) ==
    IF x <= 1 \/ x >= MAP_WIDTH - 2 \/ y <= 1 \/ y >= MAP_HEIGHT - 2
    THEN t
    ELSE IF /\ At(t, x - 1, y - 1) = "Floor"
            /\ At(t, x + 1, y - 1) = "Floor"
            /\ At(t, x - 1, y + 1) = "Floor"
            /\ At(t, x + 1, y + 1) = "Floor"
         THEN Put(t, {<<x, y>>}, "Wall")
         ELSE t

\* add_corridor_widening: the neighbours for which gen_bool(0.7) is drawn
widening_cells(x, y) ==
    {c \in {<<AsUsize(x + dx), AsUsize(y + dy)>> :
                dx \in {-1, 0, 1}, dy \in {-1, 0, 1}} \ {<<x, y>>} :
        Interior(c[1], c[2])}

\* add_corridor_widening, carved being the neighbours whose draw came up true
add_corridor_widening(t, carved) == Put(t, carved, "Floor")

find_door_position_on_floor(t, x, y) ==
    IF Interior(x, y + 1) /\ Interior(x, y + 2) /\ At(t, x, y + 2) = "Floor"
    THEN <<x, y + 1>> ELSE None

find_door_position(t, x, y) ==
    LET ok(i) ==
            LET dx == <<0, 1, 0, -1>>[i]
                dy == <<1, 0, -1, 0>>[i]
                nx == AsUsize(x + dx)
                ny == AsUsize(y + dy)
                opposite_x == AsUsize(nx + dx)
                opposite_y == AsUsize(ny + dy)
            IN  /\ Interior(nx, ny)
                /\ At(t, nx, ny) = "Wall"
                /\ Interior(opposite_x, opposite_y)
                /\ At(t, opposite_x, opposite_y) = "Floor"
        found == {i \in 1 .. 4 : ok(i)}
    IN  IF found = {} THEN None
        ELSE LET i == Least(found)
             IN  <<AsUsize(x + <<0, 1, 0, -1>>[i]), AsUsize(y + <<1, 0, -1, 0>>[i])>>

\* if let Some((door_x, door_y)) = door_pos { tiles[door_y][door_x] = Door }
stamp_door(t, x, y) ==
    LET door_pos == find_door_position(t, x, y)
    IN  IF door_pos = None THEN t ELSE Put(t, {door_pos}, "Door")

(***************************************************************************)
(* connect_rooms                                                           *)
(***************************************************************************)
KeepFields == UNCHANGED <<rooms, biomes, spawn_position, down_stairs_pos,
                          up_stairs_pos, current_level, app>>

Keep == KeepFields /\ UNCHANGED extra_corridors

\* the chain and the wrap-around edge; rooms are indexed from 0 as in the source
base_connections(n) ==
    [i \in 1 .. n - 1 |-> <<i - 1, i>>] \o (IF n > 2 THEN <<<<n - 1, 0>>>> ELSE <<>>)

contains(seq, e) == \E i \in 1 .. Len(seq) : seq[i] = e

push_connection(connections, from, to) == Append(connections, <<from, to>>)

add_connection(connections, from, to) ==
    IF ~contains(connections, <<from, to>>) /\ ~contains(connections, <<to, from>>)
    THEN Append(connections, <<from, to>>)
    ELSE connections

connect_rooms_begin ==
    /\ pc = "connect_rooms"
    /\ IF Len(rooms) <= 1
       THEN /\ pc' = "add_secret_rooms"
            /\ frame' = NoFrame
       ELSE /\ pc' = "extra_connections"
            /\ frame' = [fn |-> "connect_rooms",
                         connections |-> base_connections(Len(rooms)),
                         left |-> Len(rooms) \div 2]
    /\ UNCHANGED <<tiles, deviations, twin>>
    /\ Keep

\* the random source has no position the model follows, but a draw moves it:
\* a loop that draws again is at another point of the stream each time round
Redrawn(position) == 1 - position

\* the end of one pass of `for _ in 0..extra_connections`, `to` being another
\* room than `from`
connection_drawn(from, to) ==
    IF frame.left > 1
    THEN /\ pc' = "extra_connections"
         /\ frame' = [fn |-> "connect_rooms",
                      connections |-> add_connection(frame.connections, from, to),
                      left |-> frame.left - 1]
    ELSE /\ pc' = "corridors"
         /\ frame' = [fn |-> "connect_rooms",
                      connections |-> add_connection(frame.connections, from, to),
                      k |-> 1]

\* for _ in 0..extra_connections, up to the first test of `while from == to`;
\* a draw of `to` is priced from the lowest value that is not `from`
extra_connection ==
    /\ pc = "extra_connections"
    /\ LET froms == GenRange(0, Len(rooms)) IN
       \E from \in Within(froms, Left) :
       LET l1 == Left - Dev(from, froms)
           tos == GenRange(0, Len(rooms)) \ {from}
       IN
       \E to \in Within(tos, l1) \cup {from} :
          IF from = to
          THEN /\ Spend(Left - l1)
               /\ pc' = "redraw_to"
               /\ frame' = [fn |-> "connect_rooms", connections |-> frame.connections,
                            left |-> frame.left, from |-> from, position |-> 0]
          ELSE /\ Spend(Left - l1 + Dev(to, tos))
               /\ connection_drawn(from, to)
    /\ UNCHANGED <<tiles, twin>>
    /\ Keep

\* while from == to { to = rng.gen_range(0..rooms.len()) }
redraw_to ==
    /\ pc = "redraw_to"
    /\ LET from == frame.from
           tos == GenRange(0, Len(rooms)) \ {from}
       IN
       \E to \in Within(tos, Left) \cup {from} :
          IF from = to
          THEN /\ UNCHANGED deviations
               /\ pc' = pc
               /\ frame' = [frame EXCEPT !.position = Redrawn(@)]
          ELSE /\ Spend(Dev(to, tos))
               /\ connection_drawn(from, to)
    /\ UNCHANGED <<tiles, twin>>
    /\ Keep

\* the edge being carved, as <<start, end>>
Edge ==
    LET e == frame.connections[frame.k]
    IN  <<center(rooms[e[1] + 1]), center(rooms[e[2] + 1])>>

EdgeBothLarge ==
    LET e == frame.connections[frame.k]
    IN  size(rooms[e[1] + 1]) = "Large" /\ size(rooms[e[2] + 1]) = "Large"

one_segment(start, end, fn) == 1

\* num_segments
Segments(start, end, fn) ==
    IF fn = "create_branching_corridor"
    THEN Min(Max(distance(start, end) \div 4, 3), 6)
    ELSE Min(Max(distance(start, end) \div 5, 2), 5)

\* for (from, to) in connections: the choice of the corridor style; the simple
\* and the Z corridor are carved at once
corridor_begin ==
    /\ pc = "corridors"
    /\ frame.k <= Len(frame.connections)
    /\ LET start == Edge[1]
           end == Edge[2]
           d == distance(start, end)
           forced1 == EdgeBothLarge \/ d > 20
           forced2 == d > 15
           walk(fn) == [fn |-> fn, connections |-> frame.connections, k |-> frame.k,
                        current_x |-> start[1], current_y |-> start[2],
                        left |-> Segments(start, end, fn),
                        corridor_points |-> <<start>>]
       IN
       \E coin1 \in IF forced1 THEN {FALSE} ELSE WithinBool(Left) :
       LET l1 == Left - DevBool(coin1) IN
       IF forced1 \/ coin1
       THEN /\ pc' = "branching"
            /\ frame' = walk("create_branching_corridor")
            /\ Spend(Left - l1)
            /\ UNCHANGED <<tiles, twin>>
       ELSE
       \E coin2 \in IF forced2 THEN {FALSE} ELSE WithinBool(l1) :
       LET l2 == l1 - DevBool(coin2) IN
       IF forced2 \/ coin2
       THEN /\ pc' = "winding"
            /\ frame' = walk("create_winding_corridor")
            /\ Spend(Left - l2)
            /\ UNCHANGED <<tiles, twin>>
       ELSE
       \E coin3 \in WithinBool(l2) :
       LET l3 == l2 - DevBool(coin3) IN
       IF coin3
       THEN LET mid == z_mid_x(start[1], end[1])
                offs == IF jittered(mid, MAP_WIDTH) THEN GenRangeInclusive(-3, 3) ELSE {0}
            IN
            \E random_offset \in Within(offs, l3) :
               /\ SetTiles(LAMBDA t : create_z_corridor(t, start[1], start[2], end[1], end[2],
                                                        AsUsize(mid + random_offset)))
               /\ Spend(Left - l3 + Dev(random_offset, offs))
               /\ pc' = "door"
               /\ frame' = frame
       ELSE /\ SetTiles(LAMBDA t : create_corridor(t, start[1], start[2], end[1], end[2]))
            /\ Spend(Left - l3)
            /\ pc' = "door"
            /\ frame' = frame
    /\ Keep

\* one segment of create_winding_corridor (offset 2) or create_branching_corridor
\* (offset 3): the tiles after it, and the point it ends at
segment_target(horizontal, target_offset) ==
    IF horizontal
    THEN <<AsUsize(halfway(frame.current_x, Edge[2][1]) + target_offset), frame.current_y>>
    ELSE <<frame.current_x, AsUsize(halfway(frame.current_y, Edge[2][2]) + target_offset)>>

carve_segment(t, horizontal, target) ==
    IF horizontal
    THEN create_horizontal_corridor(t, frame.current_x, target[1], frame.current_y)
    ELSE create_vertical_corridor(t, frame.current_y, target[2], frame.current_x)

SegmentOffsets(horizontal, reach) ==
    IF horizontal
    THEN IF jittered(halfway(frame.current_x, Edge[2][1]), MAP_WIDTH)
         THEN GenRangeInclusive(-reach, reach) ELSE {0}
    ELSE IF jittered(halfway(frame.current_y, Edge[2][2]), MAP_HEIGHT)
         THEN GenRangeInclusive(-reach, reach) ELSE {0}

\* create_winding_corridor: for _ in 0..num_segments
winding_segment ==
    /\ pc = "winding"
    /\ frame.left > 0
    /\ \E horizontal \in WithinBool(Left) :
       LET l1 == Left - DevBool(horizontal)
           offs == SegmentOffsets(horizontal, 2)
       IN
       \E random_offset \in Within(offs, l1) :
       LET target == segment_target(horizontal, random_offset) IN
          /\ SetTiles(LAMBDA t : carve_segment(t, horizontal, target))
          /\ Spend(Left - l1 + Dev(random_offset, offs))
          /\ frame' = [frame EXCEPT !.current_x = target[1], !.current_y = target[2],
                                    !.left = @ - 1]
    /\ pc' = pc
    /\ Keep

no_final_segment(t) == t

\* the final segment to reach the destination
final_segment(t) ==
    create_vertical_corridor(
        create_horizontal_corridor(t, frame.current_x, Edge[2][1], frame.current_y),
        frame.current_y, Edge[2][2], Edge[2][1])

winding_final ==
    /\ pc = "winding"
    /\ frame.left = 0
    /\ SetTiles(LAMBDA t : final_segment(t))
    /\ pc' = "door"
    /\ frame' = [fn |-> "connect_rooms", connections |-> frame.connections, k |-> frame.k]
    /\ UNCHANGED deviations
    /\ Keep

\* create_branching_corridor: for _ in 0..num_segments, with the corridor
\* feature that may follow the segment
branching_segment ==
    /\ pc = "branching"
    /\ frame.left > 0
    /\ \E horizontal \in WithinBool(Left) :
       LET l1 == Left - DevBool(horizontal)
           offs == SegmentOffsets(horizontal, 3)
       IN
       \E random_offset \in Within(offs, l1) :
       LET l2 == l1 - Dev(random_offset, offs)
           target == segment_target(horizontal, random_offset)
           x == target[1]
           y == target[2]
       IN
       /\ frame' = [frame EXCEPT !.current_x = x, !.current_y = y, !.left = @ - 1,
                                 !.corridor_points = Append(@, target)]
       /\ \E feature \in WithinBool(l2) :
          LET l3 == l2 - DevBool(feature) IN
          IF ~feature
          THEN /\ SetTiles(LAMBDA t : carve_segment(t, horizontal, target))
               /\ Spend(Left - l3)
          ELSE
          \E kind \in Within(GenRange(0, 3), l3) :
          LET l4 == l3 - Dev(kind, GenRange(0, 3)) IN
          CASE kind = 0 ->
                  \E dir \in Within(GenRange(0, 4), l4) :
                  LET l5 == l4 - Dev(dir, GenRange(0, 4)) IN
                  \E alcove_size \in Within(GenRangeInclusive(1, 3), l5) :
                     /\ SetTiles(LAMBDA t : add_corridor_alcove(
                                   carve_segment(t, horizontal, target),
                                   x, y, Directions[dir + 1], alcove_size))
                     /\ Spend(Left - l5 + Dev(alcove_size, GenRangeInclusive(1, 3)))
            [] kind = 1 ->
                  /\ SetTiles(LAMBDA t : add_corridor_pillar(
                                carve_segment(t, horizontal, target), x, y))
                  /\ Spend(Left - l4)
            [] OTHER ->
                  \E carved \in {S \in SUBSET widening_cells(x, y) : Cardinality(S) <= l4} :
                     /\ SetTiles(LAMBDA t : add_corridor_widening(
                                   carve_segment(t, horizontal, target), carved))
                     /\ Spend(Left - l4 + Cardinality(carved))
    /\ pc' = pc
    /\ Keep

\* the final segment, and the draw of num_branches
branching_final ==
    /\ pc = "branching"
    /\ frame.left = 0
    /\ SetTiles(LAMBDA t : final_segment(t))
    /\ \E num_branches \in Within(GenRangeInclusive(1, 3), Left) :
          /\ Spend(Dev(num_branches, GenRangeInclusive(1, 3)))
          /\ frame' = [frame EXCEPT !.left = num_branches]
    /\ pc' = "branches"
    /\ Keep

\* for _ in 0..num_branches
branch ==
    /\ pc = "branches"
    /\ LET idxs == GenRange(1, Len(frame.corridor_points) - 1) IN
       \E branch_idx \in Within(idxs, Left) :
       LET l1 == Left - Dev(branch_idx, idxs) IN
       \E dir \in Within(GenRange(0, 4), l1) :
       LET l2 == l1 - Dev(dir, GenRange(0, 4)) IN
       \E branch_length \in Within(GenRange(3, 8), l2) :
       LET p == frame.corridor_points[branch_idx + 1] IN
          /\ SetTiles(LAMBDA t : Put(t, Run(p[1], p[2], Directions[dir + 1], branch_length),
                                     "Floor"))
          /\ Spend(Left - l2 + Dev(branch_length, GenRange(3, 8)))
    /\ IF frame.left > 1
       THEN pc' = pc /\ frame' = [frame EXCEPT !.left = @ - 1]
       ELSE /\ pc' = "door"
            /\ frame' = [fn |-> "connect_rooms", connections |-> frame.connections,
                         k |-> frame.k]
    /\ Keep

\* if rng.gen_bool(0.4) { a door at one end of the corridor }
door ==
    /\ pc = "door"
    /\ \E wanted \in WithinBool(Left) :
       LET l1 == Left - DevBool(wanted) IN
       IF ~wanted
       THEN /\ Spend(Left - l1)
            /\ UNCHANGED <<tiles, twin>>
       ELSE
       \E at_start \in WithinBool(l1) :
       LET e == IF at_start THEN Edge[1] ELSE Edge[2] IN
          /\ SetTiles(LAMBDA t : stamp_door(t, e[1], e[2]))
          /\ Spend(Left - l1 + DevBool(at_start))
    /\ pc' = "corridors"
    /\ frame' = [frame EXCEPT !.k = @ + 1]
    /\ Keep

\* Self::add_extra_corridors(tiles, rooms, rng) at the end of connect_rooms
corridors_done ==
    /\ pc = "corridors"
    /\ frame.k > Len(frame.connections)
    /\ pc' = "add_extra_corridors"
    /\ frame' = [fn |-> "add_extra_corridors", caller |-> "connect_rooms"]
    /\ UNCHANGED <<tiles, deviations, twin>>
    /\ Keep

(***************************************************************************)
(* add_extra_corridors                                                     *)
(***************************************************************************)
\* the floor tiles of the interior with a Wall beside them
floor_near_wall(t) ==
    {c \in DOMAIN t :
        /\ c[2] >= 1 /\ c[2] <= MAP_HEIGHT - 2 /\ c[1] >= 1 /\ c[1] <= MAP_WIDTH - 2
        /\ t[c] = "Floor"
        /\ \/ At(t, c[1], c[2] - 1) = "Wall"
           \/ At(t, c[1], c[2] + 1) = "Wall"
           \/ At(t, c[1] - 1, c[2]) = "Wall"
           \/ At(t, c[1] + 1, c[2]) = "Wall"}

\* a Vec filled by `for y .. { for x .. { push((x, y)) } }` holds S in row-major
\* order: its element at index idx (from 0)
RowMajorBefore(a, b) == a[2] < b[2] \/ (a[2] = b[2] /\ a[1] < b[1])

nth(S, idx) == CHOOSE c \in S : Cardinality({b \in S : RowMajorBefore(b, c)}) = idx

\* what follows the last extra corridor
after_extra_corridors ==
    IF frame.caller = "connect_rooms" THEN "add_secret_rooms" ELSE "assign_biomes"

\* the next pass of `for _ in 0..num_extra_corridors`, or the return
NextExtraCorridor ==
    IF frame.left > 1
    THEN /\ pc' = "extra_corridor"
         /\ frame' = [fn |-> "add_extra_corridors", caller |-> frame.caller,
                      left |-> frame.left - 1]
    ELSE /\ pc' = after_extra_corridors
         /\ frame' = NoFrame

add_extra_corridors_begin ==
    /\ pc = "add_extra_corridors"
    /\ \E num_extra_corridors \in Within(GenRangeInclusive(2, 4), Left) :
          /\ Spend(Dev(num_extra_corridors, GenRangeInclusive(2, 4)))
          /\ frame' = [fn |-> "add_extra_corridors", caller |-> frame.caller,
                       left |-> num_extra_corridors]
    /\ pc' = "extra_corridor"
    /\ UNCHANGED <<tiles, twin>>
    /\ Keep

\* one pass of the loop up to the corridor's first step
extra_corridor ==
    /\ pc = "extra_corridor"
    /\ LET floor_tiles == floor_near_wall(tiles) IN
       IF floor_tiles = {}
       THEN NextExtraCorridor /\ UNCHANGED <<deviations, extra_corridors>>
       ELSE
       LET idxs == GenRange(0, Cardinality(floor_tiles)) IN
       \E start_idx \in Within(idxs, Left) :
       LET l1 == Left - Dev(start_idx, idxs) IN
       \E length \in Within(GenRange(5, 15), l1) :
       LET l2 == l1 - Dev(length, GenRange(5, 15)) IN
       \E dir \in Within(GenRange(0, 4), l2) :
       LET start == nth(floor_tiles, start_idx) IN
          /\ Spend(Left - l2 + Dev(dir, GenRange(0, 4)))
          /\ pc' = "extra_step"
          /\ frame' = [fn |-> "add_extra_corridors", caller |-> frame.caller,
                       left |-> frame.left, current_x |-> start[1], current_y |-> start[2],
                       steps |-> length, direction |-> Directions[dir + 1]]
          /\ extra_corridors' = extra_corridors + 1
    /\ UNCHANGED <<tiles, twin>>
    /\ KeepFields

\* one pass of `for _ in 0..length`
extra_step ==
    /\ pc = "extra_step"
    /\ LET current_x == frame.current_x + frame.direction[1]
           current_y == frame.current_y + frame.direction[2]
       IN
       IF outside_interior(current_x, current_y)
       THEN /\ NextExtraCorridor
            /\ UNCHANGED <<tiles, twin, deviations>>
       ELSE
       /\ IF frame.steps > 1
          THEN /\ pc' = pc
               /\ frame' = [frame EXCEPT !.current_x = current_x, !.current_y = current_y,
                                         !.steps = @ - 1]
          ELSE NextExtraCorridor
       /\ \E branches \in WithinBool(Left) :
          LET l1 == Left - DevBool(branches) IN
          IF ~branches
          THEN /\ SetTiles(LAMBDA t : Put(t, {<<current_x, current_y>>}, "Floor"))
               /\ Spend(Left - l1)
          ELSE
          \E side \in Within(GenRange(0, 2), l1) :
          LET l2 == l1 - Dev(side, GenRange(0, 2))
              branch_direction ==
                  IF side = 0
                  THEN <<frame.direction[2], frame.direction[1]>>
                  ELSE <<-frame.direction[2], -frame.direction[1]>>
          IN
          \E branch_length \in Within(GenRange(3, 8), l2) :
             /\ SetTiles(LAMBDA t :
                    Put(t, {<<current_x, current_y>>}
                           \cup Run(current_x, current_y, branch_direction, branch_length),
                        "Floor"))
             /\ Spend(Left - l2 + Dev(branch_length, GenRange(3, 8)))
    /\ Keep

(***************************************************************************)
(* add_secret_rooms                                                        *)
(***************************************************************************)
has_adjacent_floor(t, x, y) ==
    \E d \in {<<0, 1>>, <<1, 0>>, <<0, -1>>, <<-1, 0>>} :
       LET nx == AsUsize(x + d[1])
           ny == AsUsize(y + d[2])
       IN  nx < MAP_WIDTH /\ ny < MAP_HEIGHT /\ At(t, nx, ny) = "Floor"

\* a Wall with a Floor beside it: the test that lets an attempt draw a room size
secret_site(t, x, y) == At(t, x, y) = "Wall" /\ has_adjacent_floor(t, x, y)

can_place(t, x, y, room_width, room_height) ==
    \A c \in (x .. x + room_width - 1) \X (y .. y + room_height - 1) :
       ~(c[1] >= MAP_WIDTH \/ c[2] >= MAP_HEIGHT \/ At(t, c[1], c[2]) = "Floor")

\* the writes of an attempt that can place its room
carve_secret_room(t, x, y, room_width, room_height, has_feature) ==
    LET t1 == Put(t, {c \in (x .. x + room_width - 1) \X (y .. y + room_height - 1) :
                         c[1] < MAP_WIDTH /\ c[2] < MAP_HEIGHT}, "Floor")
        t2 == Put(t1, {<<x, y>>}, "SecretDoor")
        feature_x == x + room_width \div 2
        feature_y == y + room_height \div 2
    IN  IF has_feature /\ feature_x < MAP_WIDTH /\ feature_y < MAP_HEIGHT
        THEN Put(t2, {<<feature_x, feature_y>>}, "Wall")
        ELSE t2

\* the next pass of `for _ in 0..num_secret_rooms`, or the return to generate_map
NextSecretRoom ==
    IF frame.left > 1
    THEN /\ pc' = "secret_attempt"
         /\ frame' = [fn |-> "add_secret_rooms", left |-> frame.left - 1, attempts |-> 0]
    ELSE /\ pc' = "add_extra_corridors"
         /\ frame' = [fn |-> "add_extra_corridors", caller |-> "generate_map"]

add_secret_rooms_begin ==
    /\ pc = "add_secret_rooms"
    /\ \E num_secret_rooms \in Within(GenRangeInclusive(1, 3), Left) :
          /\ Spend(Dev(num_secret_rooms, GenRangeInclusive(1, 3)))
          /\ frame' = [fn |-> "add_secret_rooms", left |-> num_secret_rooms, attempts |-> 0]
    /\ pc' = "secret_attempt"
    /\ UNCHANGED <<tiles, twin>>
    /\ Keep

\* one pass of `while attempts < max_attempts`
secret_attempt ==
    /\ pc = "secret_attempt"
    /\ frame.attempts < max_secret_attempts
    /\ LET xs == GenRangeFull(3, MAP_WIDTH - 6)
           ys == GenRangeFull(3, MAP_HEIGHT - 6)
           Retry == /\ pc' = pc
                    /\ frame' = [frame EXCEPT !.attempts = @ + 1]
                    /\ UNCHANGED <<tiles, twin>>
       IN
       \E x \in Within(xs, Left) :
       LET l1 == Left - Dev(x, xs) IN
       \E y \in Within(ys, l1) :
       LET l2 == l1 - Dev(y, ys) IN
       IF ~secret_site(tiles, x, y)
       THEN Retry /\ Spend(Left - l2)
       ELSE
       \E room_width \in Within(GenRange(3, 6), l2) :
       LET l3 == l2 - Dev(room_width, GenRange(3, 6)) IN
       \E room_height \in Within(GenRange(3, 6), l3) :
       LET l4 == l3 - Dev(room_height, GenRange(3, 6)) IN
       IF ~can_place(tiles, x, y, room_width, room_height)
       THEN Retry /\ Spend(Left - l4)
       ELSE
       \E has_feature \in WithinBool(l4) :
          /\ SetTiles(LAMBDA t : carve_secret_room(t, x, y, room_width, room_height,
                                                   has_feature))
          /\ Spend(Left - l4 + DevBool(has_feature))
          /\ NextSecretRoom
    /\ Keep

\* the while loop ends with the attempts used up
secret_exhausted ==
    /\ pc = "secret_attempt"
    /\ ~(frame.attempts < max_secret_attempts)
    /\ NextSecretRoom
    /\ UNCHANGED <<tiles, twin, deviations>>
    /\ Keep

(***************************************************************************)
(* assign_biomes, get_biome_at                                             *)
(***************************************************************************)
\* the first loop: the biome over the area of every room
assign_biomes_to_rooms(b, rs, map_biome) ==
    [c \in Cells |->
        IF \E i \in 1 .. Len(rs) :
              /\ c[1] >= rs[i].x /\ c[1] < rs[i].x + rs[i].width
              /\ c[2] >= rs[i].y /\ c[2] < rs[i].y + rs[i].height
              /\ c[2] < MAP_HEIGHT /\ c[1] < MAP_WIDTH
        THEN map_biome ELSE b[c]]

assign_biomes_rooms_only(b, rs, map_biome) == assign_biomes_to_rooms(b, rs, map_biome)

\* both loops: the rooms, then every cell of the map
assign_biomes(b, rs, map_biome) ==
    LET b1 == assign_biomes_to_rooms(b, rs, map_biome)
    IN  [c \in DOMAIN b1 |-> map_biome]

get_biome_at(b, x, y) ==
    IF x < MAP_WIDTH /\ y < MAP_HEIGHT THEN b[<<x, y>>] ELSE "Caves"

assign_biomes_step ==
    /\ pc = "assign_biomes"
    /\ \E idx \in Within(GenRange(0, Len(BiomeType)), Left) :
          /\ biomes' = assign_biomes(biomes, rooms, BiomeType[idx + 1])
          /\ twin' = IF twin.on
                     THEN [twin EXCEPT !.biomes = assign_biomes(@, twin.rooms, BiomeType[idx + 1])]
                     ELSE twin
          /\ Spend(Dev(idx, GenRange(0, Len(BiomeType))))
    /\ pc' = "find_spawn_position"
    /\ frame' = NoFrame
    /\ UNCHANGED <<tiles, rooms, spawn_position, down_stairs_pos, up_stairs_pos,
                   current_level, extra_corridors, app>>

(***************************************************************************)
(* find_spawn_position: its index comes from rand::thread_rng(), a source  *)
(* of its own and not the rng handed to generate_map.                      *)
(***************************************************************************)
floor_tiles_of(t) == {c \in DOMAIN t : t[c] = "Floor"}

\* floor_tiles[0]
first_floor(S) == CHOOSE c \in S : \A b \in S : ~RowMajorBefore(b, c)

\* the positions find_spawn_position can return on t, each for one index
spawn_choices(t) ==
    IF floor_tiles_of(t) # {}
    THEN floor_tiles_of(t)
    ELSE {<<MAP_WIDTH \div 2, MAP_HEIGHT \div 2>>}

\* the position the lowest index gives
spawn_default(t) ==
    IF floor_tiles_of(t) # {}
    THEN first_floor(floor_tiles_of(t))
    ELSE <<MAP_WIDTH \div 2, MAP_HEIGHT \div 2>>

SpawnWithin(t, left) == IF left > 0 THEN spawn_choices(t) ELSE {spawn_default(t)}

SpawnDev(t, p) == IF p = spawn_default(t) THEN 0 ELSE 1

find_spawn_position ==
    /\ pc = "find_spawn_position"
    /\ \E p \in SpawnWithin(tiles, Left) :
       LET l1 == Left - SpawnDev(tiles, p) IN
          /\ spawn_position' = p
          /\ IF twin.on
             THEN \E q \in SpawnWithin(twin.tiles, l1) :
                     /\ twin' = [twin EXCEPT !.spawn_position = q]
                     /\ Spend(Left - l1 + SpawnDev(twin.tiles, q))
             ELSE /\ twin' = twin
                  /\ Spend(Left - l1)
    /\ pc' = "new_level"
    /\ UNCHANGED <<frame, tiles, rooms, biomes, down_stairs_pos, up_stairs_pos,
                   current_level, extra_corridors, app>>

(***************************************************************************)
(* TileMap::new (level 0) and TileMap::new_level(level, previous_map):     *)
(* the TileMap built from what generate_map returned                       *)
(***************************************************************************)
\* a map of an earlier level, as far as a caller of new_level could read it
PreviousMap == [current_level |-> MaxLevel, down_stairs_pos |-> <<2, 2>>]

\* the calls: TileMap::new() and TileMap::new_level(level, previous_map)
Calls ==
    {[fn |-> "new", level |-> 0, previous_map |-> None]}
    \cup {[fn |-> "new_level", level |-> level, previous_map |-> previous_map] :
             level \in 0 .. MaxLevel, previous_map \in {None, PreviousMap}}

level_after_previous(call) ==
    IF call.previous_map # None THEN call.previous_map.current_level + 1 ELSE call.level

\* current_level: 0 in new(), level in new_level()
level_of(call) ==
    IF call.fn = "new" THEN 0 ELSE call.level

new_level ==
    /\ pc = "new_level"
    /\ \E call \in Calls :
          /\ frame' = call
          /\ current_level' = level_of(call)
    /\ down_stairs_pos' = None
    /\ up_stairs_pos' = None
    /\ pc' = "add_stairs"
    /\ UNCHANGED <<tiles, rooms, biomes, spawn_position, deviations, twin,
                   extra_corridors, app>>

(***************************************************************************)
(* add_stairs                                                              *)
(***************************************************************************)
\* the offsets find_valid_position_in_room may draw along one side
inset_offsets(side) ==
    IF side - 2 > 0 THEN GenRange(0, side - 2) ELSE {0}

find_valid_position_at_edge(room, off_x, off_y) ==
    LET width_range == Max(room.width - 2, 0)
        height_range == Max(room.height - 2, 0)
    IN  <<IF width_range > 0 THEN room.x + off_x ELSE room.x + room.width \div 2,
          IF height_range > 0 THEN room.y + off_y ELSE room.y + room.height \div 2>>

\* find_valid_position_in_room with the values its draws gave
find_valid_position_in_room(room, off_x, off_y) ==
    LET width_range == Max(room.width - 2, 0)
        height_range == Max(room.height - 2, 0)
    IN  <<IF width_range > 0 THEN room.x + 1 + off_x ELSE room.x + room.width \div 2,
          IF height_range > 0 THEN room.y + 1 + off_y ELSE room.y + room.height \div 2>>

\* the first neighbour of the down stairs that can take the up stairs, or None
first_free_neighbour(t, up) ==
    LET new(i) == <<AsUsize(up[1] + <<1, -1, 0, 0>>[i]), AsUsize(up[2] + <<0, 0, 1, -1>>[i])>>
        free == {i \in 1 .. 4 :
                    Interior(new(i)[1], new(i)[2]) /\ At(t, new(i)[1], new(i)[2]) = "Floor"}
    IN  IF free = {} THEN None ELSE new(Least(free))

\* the TileMap a run holds when add_stairs is called
Self == [tiles |-> tiles, rooms |-> rooms, spawn_position |-> spawn_position,
         current_level |-> current_level]

TwinSelf == [tiles |-> twin.tiles, rooms |-> twin.rooms,
             spawn_position |-> twin.spawn_position, current_level |-> current_level]

add_stairs_at_spawn(self, down_idx, down_off, up_idx, up_off) ==
    [tiles |-> Put(self.tiles, {self.spawn_position}, "StairsDown"),
     down_stairs_pos |-> self.spawn_position, up_stairs_pos |-> None]

\* add_stairs up to the down stairs: the tiles and the two positions so far
place_down_stairs(self, down_idx, down_off) ==
    LET t == self.tiles
        cleared == [c \in DOMAIN t |->
                       IF t[c] = "StairsDown" \/ t[c] = "StairsUp" THEN "Floor" ELSE t[c]]
        down == find_valid_position_in_room(self.rooms[down_idx + 1], down_off[1], down_off[2])
    IN  [tiles |-> Put(cleared, {down}, "StairsDown"),
         down_stairs_pos |-> down, up_stairs_pos |-> None]

\* add_stairs from the cell computed for the up stairs on
place_up_stairs(placed, up) ==
    LET moved == IF up = placed.down_stairs_pos
                 THEN first_free_neighbour(placed.tiles, up) ELSE None
    IN  IF moved # None
        THEN [tiles |-> Put(placed.tiles, {moved}, "StairsUp"),
              down_stairs_pos |-> placed.down_stairs_pos, up_stairs_pos |-> moved]
        ELSE [tiles |-> Put(placed.tiles, {up}, "StairsUp"),
              down_stairs_pos |-> placed.down_stairs_pos, up_stairs_pos |-> up]

\* add_stairs(&mut self, rng): the tiles and the two positions it leaves
add_stairs(self, down_idx, down_off, up_idx, up_off) ==
    LET placed == place_down_stairs(self, down_idx, down_off)
        up == find_valid_position_in_room(self.rooms[up_idx + 1], up_off[1], up_off[2])
    IN  IF ~(self.current_level > 0) THEN placed ELSE place_up_stairs(placed, up)

\* the room index the up stairs end with: another room than the down stairs'
\* when there is one (the value the `loop` ends with), else room 0
up_room_choices(n, down_idx) ==
    IF n > 1 THEN GenRange(0, n) \ {down_idx} ELSE {0}

\* both runs take what add_stairs left them
Stairs(mine, other) ==
    /\ tiles' = mine.tiles
    /\ down_stairs_pos' = mine.down_stairs_pos
    /\ up_stairs_pos' = mine.up_stairs_pos
    /\ twin' = IF twin.on
               THEN [twin EXCEPT !.tiles = other.tiles,
                                 !.down_stairs_pos = other.down_stairs_pos,
                                 !.up_stairs_pos = other.up_stairs_pos]
               ELSE twin

\* the call that returns, with the cell find_valid_position_in_room gave for
\* the up stairs (None on level 0)
Placed(up) ==
    [fn |-> frame.fn, level |-> frame.level, previous_map |-> frame.previous_map,
     up |-> up]

\* add_stairs where the first room drawn for the up stairs is not the room of
\* the down stairs
add_stairs_step ==
    /\ pc = "add_stairs"
    /\ LET idxs == GenRange(0, Len(rooms)) IN
       \E down_idx \in Within(idxs, Left) :
       LET l1 == Left - Dev(down_idx, idxs)
           dr == rooms[down_idx + 1]
       IN
       \E dx \in Within(inset_offsets(dr.width), l1) :
       LET l2 == l1 - Dev(dx, inset_offsets(dr.width)) IN
       \E dy \in Within(inset_offsets(dr.height), l2) :
       LET l3 == l2 - Dev(dy, inset_offsets(dr.height))
           ups == IF current_level > 0 THEN up_room_choices(Len(rooms), down_idx) ELSE {0}
       IN
       \E up_idx \in Within(ups, l3) :
       LET l4 == l3 - Dev(up_idx, ups)
           ur == rooms[up_idx + 1]
           uxs == IF current_level > 0 THEN inset_offsets(ur.width) ELSE {0}
           uys == IF current_level > 0 THEN inset_offsets(ur.height) ELSE {0}
       IN
       \E ux \in Within(uxs, l4) :
       LET l5 == l4 - Dev(ux, uxs) IN
       \E uy \in Within(uys, l5) :
          /\ Stairs(add_stairs(Self, down_idx, <<dx, dy>>, up_idx, <<ux, uy>>),
                    add_stairs(TwinSelf, down_idx, <<dx, dy>>, up_idx, <<ux, uy>>))
          /\ Spend(Left - l5 + Dev(uy, uys))
          /\ frame' = Placed(IF current_level > 0
                             THEN find_valid_position_in_room(ur, ux, uy) ELSE None)
    /\ pc' = "done"
    /\ UNCHANGED <<rooms, biomes, spawn_position, current_level, extra_corridors, app>>

\* add_stairs on a level above 0 with several rooms, up to a pass of the
\* `loop` that draws the room of the down stairs
add_stairs_same_room ==
    /\ pc = "add_stairs"
    /\ current_level > 0 /\ Len(rooms) > 1
    /\ LET idxs == GenRange(0, Len(rooms)) IN
       \E down_idx \in Within(idxs, Left) :
       LET l1 == Left - Dev(down_idx, idxs)
           dr == rooms[down_idx + 1]
       IN
       \E dx \in Within(inset_offsets(dr.width), l1) :
       LET l2 == l1 - Dev(dx, inset_offsets(dr.width)) IN
       \E dy \in Within(inset_offsets(dr.height), l2) :
          /\ Stairs(place_down_stairs(Self, down_idx, <<dx, dy>>),
                    place_down_stairs(TwinSelf, down_idx, <<dx, dy>>))
          /\ Spend(Left - l2 + Dev(dy, inset_offsets(dr.height)))
          /\ frame' = [fn |-> frame.fn, level |-> frame.level,
                       previous_map |-> frame.previous_map,
                       down_idx |-> down_idx, position |-> 0]
    /\ pc' = "up_stairs_room"
    /\ UNCHANGED <<rooms, biomes, spawn_position, current_level, extra_corridors, app>>

\* loop { up_stairs_room_idx = rng.gen_range(0..rooms_len); if it is another
\* room than the down stairs' { break } } and the rest of add_stairs
up_stairs_room ==
    /\ pc = "up_stairs_room"
    /\ LET ups == up_room_choices(Len(rooms), frame.down_idx) IN
       \E up_idx \in Within(ups, Left) \cup {frame.down_idx} :
       IF up_idx = frame.down_idx
       THEN /\ pc' = pc
            /\ frame' = [frame EXCEPT !.position = Redrawn(@)]
            /\ UNCHANGED <<tiles, down_stairs_pos, up_stairs_pos, deviations, twin>>
       ELSE
       LET l1 == Left - Dev(up_idx, ups)
           ur == rooms[up_idx + 1]
       IN
       \E ux \in Within(inset_offsets(ur.width), l1) :
       LET l2 == l1 - Dev(ux, inset_offsets(ur.width)) IN
       \E uy \in Within(inset_offsets(ur.height), l2) :
       LET up == find_valid_position_in_room(ur, ux, uy) IN
          /\ Stairs(place_up_stairs([tiles |-> tiles, down_stairs_pos |-> down_stairs_pos,
                                     up_stairs_pos |-> up_stairs_pos], up),
                    place_up_stairs([tiles |-> twin.tiles,
                                     down_stairs_pos |-> twin.down_stairs_pos,
                                     up_stairs_pos |-> twin.up_stairs_pos], up))
          /\ Spend(Left - l2 + Dev(uy, inset_offsets(ur.height)))
          /\ pc' = "done"
          /\ frame' = Placed(up)
    /\ UNCHANGED <<rooms, biomes, spawn_position, current_level, extra_corridors, app>>

Next ==
    \/ generate_rooms_begin
    \/ generate_rooms_attempt
    \/ generate_rooms_return
    \/ carve_room
    \/ carve_pillared
    \/ add_columns
    \/ carve_done
    \/ connect_rooms_begin
    \/ extra_connection
    \/ redraw_to
    \/ corridor_begin
    \/ winding_segment
    \/ winding_final
    \/ branching_segment
    \/ branching_final
    \/ branch
    \/ door
    \/ corridors_done
    \/ add_extra_corridors_begin
    \/ extra_corridor
    \/ extra_step
    \/ add_secret_rooms_begin
    \/ secret_attempt
    \/ secret_exhausted
    \/ assign_biomes_step
    \/ find_spawn_position
    \/ new_level
    \/ add_stairs_step
    \/ add_stairs_same_room
    \/ up_stairs_room

Spec == Init /\ [][Next]_vars

SpecTwin == InitTwin /\ [][Next]_vars

\* the call keeps running until it returns
SpecLive == Init /\ [][Next]_vars /\ WF_vars(Next)

(***************************************************************************)
(* connect_rooms on its own: the call of generate_map line 440, entered    *)
(* with a room list generate_rooms can return and the tiles its rooms      *)
(* carve, up to the return of connect_rooms.                               *)
(***************************************************************************)
\* two Large rooms side by side; two Medium rooms side by side; four Small rooms
RoomLists ==
    {<<Room(1, 1, 10, 10, "Rectangular"), Room(13, 1, 10, 10, "LargeHall")>>,
     <<Room(1, 1, 6, 6, "Rectangular"), Room(9, 1, 6, 6, "LShaped")>>,
     <<Room(1, 1, 3, 3, "Rectangular"), Room(6, 1, 3, 3, "Rectangular"),
       Room(1, 6, 3, 3, "Rectangular"), Room(6, 6, 3, 3, "Rectangular")>>}

\* room.carve(&mut tiles, rng), where a LargeHall draws the central feature
\* at its largest size
carve_drawn(r, t) ==
    IF r.room_type = "LargeHall" THEN add_central_feature(r, carve(r, t), 3) ELSE carve(r, t)

\* for room in &rooms { room.carve(&mut tiles, rng) }
RECURSIVE carve_all(_, _, _)
carve_all(rs, i, t) ==
    IF i > Len(rs) THEN t ELSE carve_all(rs, i + 1, carve_drawn(rs[i], t))

InitConnect ==
    /\ pc = "connect_rooms"
    /\ frame = NoFrame
    /\ rooms \in RoomLists
    /\ tiles = carve_all(rooms, 1, AllWall)
    /\ biomes = AllCaves
    /\ spawn_position = None
    /\ down_stairs_pos = None
    /\ up_stairs_pos = None
    /\ current_level = None
    /\ deviations = 0
    /\ twin = TwinOf(FALSE)
    /\ extra_corridors = 0
    /\ NoApp

connect_rooms_returns ==
    /\ pc = "add_extra_corridors" \/ pc = "extra_corridor" \/ pc = "extra_step"
    /\ frame.caller = "connect_rooms"
    /\ \/ add_extra_corridors_begin
       \/ extra_corridor
       \/ extra_step

NextConnect ==
    \/ connect_rooms_begin
    \/ extra_connection
    \/ redraw_to
    \/ corridor_begin
    \/ winding_segment
    \/ winding_final
    \/ branching_segment
    \/ branching_final
    \/ branch
    \/ door
    \/ corridors_done
    \/ connect_rooms_returns

SpecConnect == InitConnect /\ [][NextConnect]_vars

(***************************************************************************)
(* room.carve on its own: generate_map's loop over a room list that holds   *)
(* one SmallChamber of a size and at a position generate_rooms can draw.    *)
(***************************************************************************)
SmallChambers ==
    {<<Room(x, y, width, height, "SmallChamber")>> :
        x \in {1, 20, 37}, y \in {1, 17}, width \in 3 .. 5, height \in 3 .. 5}

InitCarve ==
    /\ pc = "carve"
    /\ frame = [fn |-> "carve", i |-> 1]
    /\ rooms \in SmallChambers
    /\ tiles = AllWall
    /\ biomes = AllCaves
    /\ spawn_position = None
    /\ down_stairs_pos = None
    /\ up_stairs_pos = None
    /\ current_level = None
    /\ deviations = 0
    /\ twin = TwinOf(FALSE)
    /\ extra_corridors = 0
    /\ NoApp

NextCarve ==
    \/ carve_room
    \/ carve_done

SpecCarve == InitCarve /\ [][NextCarve]_vars

\* the positions an index into the tile or the biome grid may take
InGrid(x, y) == x >= 0 /\ x < MAP_WIDTH /\ y >= 0 /\ y < MAP_HEIGHT

(***************************************************************************)
(* The running game (main.rs, input.rs): setup and spawn_game_world, then  *)
(* one pass of the Update schedule after another. The systems of the       *)
(* schedule are chained (main.rs:136-158), so a pass runs them in the      *)
(* listed order; the commands a system issues are queued and applied when  *)
(* the pass ends. The TileMap resource is held in tiles, rooms,            *)
(* spawn_position, down_stairs_pos, up_stairs_pos and current_level; the   *)
(* maps of dungeon_state.levels are records of the same fields (biomes,    *)
(* which no system below reads, are left out of them).                     *)
(***************************************************************************)
\* the deepest level index a descent may create
MaxDepth == 2

\* the sets of keys held down at once during a pass
KeyChords ==
    {{}, {"W"}, {"S"}, {"A"}, {"D"},
     {"ShiftLeft", "E"}, {"ShiftLeft", "R"}, {"ShiftLeft", "E", "R"}}

\* the TileMap new / new_level(level, None) returns for a one-room list rs
\* carved to t: the spawn position, then add_stairs with the offsets drawn
TileMapOf(rs, t, spawn, level, down_off, up_off) ==
    LET self == [tiles |-> t, rooms |-> rs, spawn_position |-> spawn,
                 current_level |-> level]
        stairs == add_stairs(self, 0, down_off, 0, up_off)
    IN  [tiles |-> stairs.tiles, rooms |-> rs, spawn_position |-> spawn,
         down_stairs_pos |-> stairs.down_stairs_pos,
         up_stairs_pos |-> stairs.up_stairs_pos, current_level |-> level]

\* maps TileMap::new() (level 0) and TileMap::new_level(level, None) can
\* return: a 3x3 chamber with a secret room placed at the site (3, 4); above
\* level 0 the plain chamber, or a cross with both stairs drawn on its Wall
\* corner (2, 2)
GeneratedMaps(level) ==
    LET chamber == <<Room(1, 1, 3, 3, "Rectangular")>>
        cross == <<Room(1, 1, 10, 10, "CrossShaped")>>
        chamber_tiles == carve_all(chamber, 1, AllWall)
        cross_tiles == carve_all(cross, 1, AllWall)
    IN  IF level = 0
        THEN {TileMapOf(chamber, carve_secret_room(chamber_tiles, 3, 4, 3, 3, FALSE),
                        <<1, 1>>, 0, <<0, 0>>, <<0, 0>>)}
        ELSE {TileMapOf(chamber, chamber_tiles, <<1, 1>>, level, <<0, 0>>, <<0, 0>>),
              TileMapOf(cross, cross_tiles, spawn_default(cross_tiles), level,
                        <<0, 0>>, <<0, 0>>)}

\* Option::<MovementDirection>::None
NoDirection == "None"

\* PlayerAnimation::default(), without the fields that only drive the sprite
DefaultPlayerAnimation ==
    [is_moving |-> FALSE, target_pos |-> None, queued_direction |-> NoDirection,
     last_movement_direction |-> NoDirection]

\* commands.spawn((SpriteSheetBundle { transform, .. }, Player,
\* Position::new(..), PlayerAnimation::default())); transform is the cell
\* the sprite stands on
Player(pos) ==
    [position |-> pos, transform |-> pos, animation |-> DefaultPlayerAnimation]

\* the TileMap resource
ActiveMap ==
    [tiles |-> tiles, rooms |-> rooms, spawn_position |-> spawn_position,
     down_stairs_pos |-> down_stairs_pos, up_stairs_pos |-> up_stairs_pos,
     current_level |-> current_level]

\* setup (insert_resource(map.clone()), DungeonState { levels: vec![map],
\* current_level_index: 0 }) and spawn_game_world
InitGame ==
    \E map \in GeneratedMaps(0) :
        /\ pc = "keyboard_input"
        /\ frame = NoFrame
        /\ tiles = map.tiles
        /\ rooms = map.rooms
        /\ biomes = AllCaves
        /\ spawn_position = map.spawn_position
        /\ down_stairs_pos = map.down_stairs_pos
        /\ up_stairs_pos = map.up_stairs_pos
        /\ current_level = map.current_level
        /\ deviations = 0
        /\ twin = TwinOf(FALSE)
        /\ extra_corridors = 0
        /\ dungeon_state = [levels |-> <<map>>, current_level_index |-> 0]
        /\ players = <<Player(map.spawn_position)>>
        /\ tile_entities = <<map.tiles>>
        /\ input_state = DefaultInputState
        /\ animation_state = [animation_in_progress |-> FALSE]
        /\ keyboard = [pressed |-> {}, just_pressed |-> {}]
        /\ commands = <<>>

KeepGeneration == UNCHANGED <<frame, biomes, deviations, twin, extra_corridors>>

KeepMap ==
    UNCHANGED <<tiles, rooms, spawn_position, down_stairs_pos, up_stairs_pos,
                current_level>>

\* Input<KeyCode> as the engine leaves it before the pass: the keys held now,
\* and of them the keys that were not held in the pass before
keyboard_input ==
    /\ pc = "keyboard_input"
    /\ \E held \in KeyChords :
          keyboard' = [pressed |-> held, just_pressed |-> held \ keyboard.pressed]
    /\ pc' = "handle_input"
    /\ KeepGeneration /\ KeepMap
    /\ UNCHANGED <<dungeon_state, players, tile_entities, input_state,
                   animation_state, commands>>

just_pressed(key) == key \in keyboard.just_pressed

pressed(key) == key \in keyboard.pressed

handle_input ==
    /\ pc = "handle_input"
    /\ LET can_process_movement ==
               ~animation_state.animation_in_progress \/ input_state.continuous_movement
       IN  input_state' =
               [up |-> can_process_movement /\ just_pressed("W"),
                down |-> can_process_movement /\ just_pressed("S"),
                left |-> can_process_movement /\ just_pressed("A"),
                right |-> can_process_movement /\ just_pressed("D"),
                interact |-> FALSE,
                regenerate_map |-> pressed("ShiftLeft") /\ just_pressed("R"),
                continuous_movement |-> \E key \in {"W", "S", "A", "D"} : pressed(key)]
    /\ pc' = "queue_next_movement"
    /\ KeepGeneration /\ KeepMap
    /\ UNCHANGED <<dungeon_state, players, tile_entities, animation_state,
                   keyboard, commands>>

queue_next_movement ==
    /\ pc = "queue_next_movement"
    /\ players' =
          IF animation_state.animation_in_progress /\ Len(players) = 1
          THEN [players EXCEPT ![1].animation.queued_direction =
                   IF just_pressed("W") THEN "Up"
                   ELSE IF just_pressed("S") THEN "Down"
                   ELSE IF just_pressed("A") THEN "Left"
                   ELSE IF just_pressed("D") THEN "Right"
                   ELSE @]
          ELSE players
    /\ pc' = "update_sprite_positions"
    /\ KeepGeneration /\ KeepMap
    /\ UNCHANGED <<dungeon_state, tile_entities, input_state, animation_state,
                   keyboard, commands>>

update_sprite_positions ==
    /\ pc = "update_sprite_positions"
    /\ players' = [i \in DOMAIN players |->
                      IF players[i].animation.is_moving
                      THEN players[i]
                      ELSE [players[i] EXCEPT !.transform = players[i].position]]
    /\ pc' = "move_player"
    /\ KeepGeneration /\ KeepMap
    /\ UNCHANGED <<dungeon_state, tile_entities, input_state, animation_state,
                   keyboard, commands>>

\* the cell one step from pos: Up is y + 1
step(pos, direction) ==
    CASE direction = "Up" -> <<pos[1], pos[2] + 1>>
      [] direction = "Down" -> <<pos[1], pos[2] - 1>>
      [] direction = "Left" -> <<pos[1] - 1, pos[2]>>
      [] direction = "Right" -> <<pos[1] + 1, pos[2]>>

\* spawn_tiles: the TileWalkability of a tile entity
walkability(tile_type) ==
    CASE tile_type \in {"Floor", "StairsDown", "StairsUp"} -> "Walkable"
      [] tile_type = "Wall" -> "Blocked"
      [] tile_type \in {"Door", "SecretDoor"} -> "Door"

\* the loop body of move_player for one player, t the tiles that answer for
\* the target cell
move_one(p, t) ==
    LET new_pos == IF input_state.up THEN step(p.position, "Up")
                   ELSE IF input_state.down THEN step(p.position, "Down")
                   ELSE IF input_state.left THEN step(p.position, "Left")
                   ELSE IF input_state.right THEN step(p.position, "Right")
                   ELSE p.position
        can_move == CASE walkability(At(t, new_pos[1], new_pos[2])) = "Walkable" -> TRUE
                      [] walkability(At(t, new_pos[1], new_pos[2])) = "Blocked" -> FALSE
                      [] walkability(At(t, new_pos[1], new_pos[2])) = "Door" ->
                            input_state.interact
    IN  IF InGrid(new_pos[1], new_pos[2]) /\ can_move
        THEN [p EXCEPT !.position = new_pos]
        ELSE p

\* the tile entity found first for a cell is one of the spawned sets; with
\* none spawned the tilemap answers
move_player ==
    /\ pc = "move_player"
    /\ IF animation_state.animation_in_progress
       THEN players' = players
       ELSE \E t \in IF tile_entities = <<>>
                     THEN {tiles}
                     ELSE {tile_entities[e] : e \in DOMAIN tile_entities} :
               players' = [i \in DOMAIN players |-> move_one(players[i], t)]
    /\ pc' = "animate_player_movement"
    /\ KeepGeneration /\ KeepMap
    /\ UNCHANGED <<dungeon_state, tile_entities, input_state, animation_state,
                   keyboard, commands>>

\* the cell a queued or continued move goes to, or None when it is outside
\* the grid or a Wall
next_cell(p, direction) ==
    LET new_pos == step(p.position, direction)
    IN  IF InGrid(new_pos[1], new_pos[2]) /\ At(tiles, new_pos[1], new_pos[2]) # "Wall"
        THEN new_pos
        ELSE None

\* the loop body of animate_player_movement for the player entity i, with
\* the animation_in_progress the earlier bodies left; finished is
\* animation_timer.finished() after the tick
animate(p, i, in_progress, finished) ==
    LET a == p.animation
        q == a.queued_direction
        queued_cell == IF q # NoDirection THEN next_cell(p, q) ELSE None
        continued_cell ==
            IF input_state.continuous_movement /\ a.last_movement_direction # NoDirection
            THEN next_cell(p, a.last_movement_direction)
            ELSE None
        restart(cell, direction) ==
            [player |-> [p EXCEPT !.transform = a.target_pos,
                                  !.animation = [is_moving |-> TRUE, target_pos |-> cell,
                                                 queued_direction |-> NoDirection,
                                                 last_movement_direction |-> direction]],
             animation_in_progress |-> TRUE,
             commands |-> <<[op |-> "insert", entity |-> i, position |-> cell]>>]
    IN  IF a.is_moving
        THEN IF ~finished
             THEN [player |-> p, animation_in_progress |-> TRUE, commands |-> <<>>]
             ELSE IF queued_cell # None
             THEN restart(queued_cell, q)
             ELSE IF continued_cell # None
             THEN restart(continued_cell, a.last_movement_direction)
             ELSE [player |-> [p EXCEPT !.transform = a.target_pos,
                                        !.animation.is_moving = FALSE,
                                        !.animation.queued_direction = NoDirection],
                   animation_in_progress |-> FALSE, commands |-> <<>>]
        ELSE IF /\ input_state.up \/ input_state.down \/ input_state.left
                    \/ input_state.right
                /\ ~in_progress
                /\ p.transform # p.position
             THEN [player |-> [p EXCEPT !.animation.is_moving = TRUE,
                                        !.animation.target_pos = p.position,
                                        !.animation.last_movement_direction =
                                            IF input_state.up THEN "Up"
                                            ELSE IF input_state.down THEN "Down"
                                            ELSE IF input_state.left THEN "Left"
                                            ELSE "Right"],
                   animation_in_progress |-> TRUE, commands |-> <<>>]
             ELSE [player |-> p, animation_in_progress |-> in_progress, commands |-> <<>>]

\* for (entity, position, transform, animation) in player_query.iter_mut()
RECURSIVE animate_all(_, _, _)
animate_all(i, done, finished) ==
    IF i > Len(players)
    THEN done
    ELSE LET r == animate(players[i], i, done.animation_in_progress, finished)
         IN  animate_all(i + 1,
                         [players |-> Append(done.players, r.player),
                          animation_in_progress |-> r.animation_in_progress,
                          commands |-> done.commands \o r.commands],
                         finished)

animate_player_movement ==
    /\ pc = "animate_player_movement"
    /\ \E finished \in BOOLEAN :
          LET done == animate_all(1, [players |-> <<>>,
                                      animation_in_progress |->
                                          animation_state.animation_in_progress,
                                      commands |-> <<>>], finished)
          IN  /\ players' = done.players
              /\ animation_state' = [animation_in_progress |-> done.animation_in_progress]
              /\ commands' = commands \o done.commands
    /\ pc' = "regenerate_map_system"
    /\ KeepGeneration /\ KeepMap
    /\ UNCHANGED <<dungeon_state, tile_entities, input_state, keyboard>>

\* what a level change queues: the new TileMap resource, the despawn of the
\* entities the system found, the tiles of new_map, a player on pos
respawn(new_map, pos) ==
    <<[op |-> "insert_resource", map |-> new_map],
      [op |-> "despawn"],
      [op |-> "spawn_tiles", map |-> new_map],
      [op |-> "spawn_player", position |-> pos]>>

\* a replacement that would hit the level below the current one
replace_next_level(levels, current_index, new_map) ==
    IF current_index + 2 \in DOMAIN levels
    THEN [levels EXCEPT ![current_index + 2] = new_map]
    ELSE levels

\* if let Some(level) = dungeon_state.levels.get_mut(current_index)
replace_level(levels, current_index, new_map) ==
    IF current_index + 1 \in DOMAIN levels
    THEN [levels EXCEPT ![current_index + 1] = new_map]
    ELSE levels

regenerate_map_system ==
    /\ pc = "regenerate_map_system"
    /\ IF input_state.regenerate_map /\ players # <<>>
       THEN \E new_map \in GeneratedMaps(dungeon_state.current_level_index) :
               /\ dungeon_state' =
                     [dungeon_state EXCEPT
                         !.levels = replace_level(@, dungeon_state.current_level_index,
                                                  new_map)]
               /\ commands' = commands \o respawn(new_map, new_map.spawn_position)
       ELSE UNCHANGED <<dungeon_state, commands>>
    /\ pc' = "handle_stairs_system"
    /\ KeepGeneration /\ KeepMap
    /\ UNCHANGED <<players, tile_entities, input_state, animation_state, keyboard>>

\* if target_level >= dungeon_state.levels.len()
needs_new_level(target_level, levels) == target_level >= Len(levels)

\* the branch `if on_down_stairs`, s the dungeon state and the commands so
\* far, generated the map new_level returns if it is called
descend(s, generated) ==
    LET target_level == s.dungeon_state.current_level_index + 1
        levels == IF needs_new_level(target_level, s.dungeon_state.levels)
                  THEN Append(s.dungeon_state.levels, generated)
                  ELSE s.dungeon_state.levels
        new_map == levels[target_level + 1]
    IN  [dungeon_state |-> [levels |-> levels, current_level_index |-> target_level],
         commands |-> s.commands \o
                      respawn(new_map, IF new_map.up_stairs_pos # None
                                       THEN new_map.up_stairs_pos
                                       ELSE new_map.spawn_position)]

\* the branch `if on_up_stairs && dungeon_state.current_level_index > 0`
ascend(s) ==
    LET target_level == s.dungeon_state.current_level_index - 1
        new_map == s.dungeon_state.levels[target_level + 1]
    IN  [dungeon_state |-> [s.dungeon_state EXCEPT !.current_level_index = target_level],
         commands |-> s.commands \o
                      respawn(new_map, IF new_map.down_stairs_pos # None
                                       THEN new_map.down_stairs_pos
                                       ELSE new_map.spawn_position)]

\* player_query.single() panics unless there is exactly one player
handle_stairs_system ==
    /\ pc = "handle_stairs_system"
    /\ IF players = <<>>
       THEN pc' = "apply_deferred" /\ UNCHANGED <<dungeon_state, commands>>
       ELSE IF Len(players) # 1
       THEN pc' = "panicked" /\ UNCHANGED <<dungeon_state, commands>>
       ELSE LET player_pos_usize == <<AsUsize(players[1].position[1]),
                                      AsUsize(players[1].position[2])>>
                on_down_stairs == down_stairs_pos # None
                                  /\ player_pos_usize = down_stairs_pos
                on_up_stairs == up_stairs_pos # None /\ player_pos_usize = up_stairs_pos
                target_level == dungeon_state.current_level_index + 1
            IN  /\ pc' = "apply_deferred"
                /\ IF pressed("ShiftLeft") /\ just_pressed("E")
                   THEN /\ on_down_stairs => target_level <= MaxDepth
                        /\ \E generated \in GeneratedMaps(target_level) :
                           LET s1 == IF on_down_stairs
                                     THEN descend([dungeon_state |-> dungeon_state,
                                                   commands |-> commands], generated)
                                     ELSE [dungeon_state |-> dungeon_state,
                                           commands |-> commands]
                               s2 == IF on_up_stairs
                                        /\ s1.dungeon_state.current_level_index > 0
                                     THEN ascend(s1)
                                     ELSE s1
                           IN  /\ dungeon_state' = s2.dungeon_state
                               /\ commands' = s2.commands
                   ELSE UNCHANGED <<dungeon_state, commands>>
    /\ KeepGeneration /\ KeepMap
    /\ UNCHANGED <<players, tile_entities, input_state, animation_state, keyboard>>

\* insert_resource that would copy the tiles alone
insert_resource_tiles(w, map) == [w EXCEPT !.map.tiles = map.tiles]

\* Commands::insert_resource applied to the world w
insert_resource(w, map) == [w EXCEPT !.map = map]

\* one queued command applied to the world w; the entities a system found
\* are w.players and w.tile_entities, the ones spawned since are kept apart
apply_command(c, w) ==
    CASE c.op = "insert_resource" -> insert_resource(w, c.map)
      [] c.op = "despawn" -> [w EXCEPT !.players = <<>>, !.tile_entities = <<>>]
      [] c.op = "spawn_tiles" ->
            [w EXCEPT !.spawned_tiles = Append(@, c.map.tiles)]
      [] c.op = "spawn_player" ->
            [w EXCEPT !.spawned_players = Append(@, Player(c.position))]
      [] c.op = "insert" ->
            IF c.entity \in DOMAIN w.players
            THEN [w EXCEPT !.players[c.entity].position = c.position]
            ELSE w

RECURSIVE apply_commands(_, _, _)
apply_commands(cmds, i, w) ==
    IF i > Len(cmds) THEN w ELSE apply_commands(cmds, i + 1, apply_command(cmds[i], w))

\* the world the queued commands cmds leave when the pass ends
world_after(cmds) ==
    apply_commands(cmds, 1, [map |-> ActiveMap, players |-> players,
                             tile_entities |-> tile_entities,
                             spawned_players |-> <<>>, spawned_tiles |-> <<>>])

\* the end of the pass: the queued commands are applied in the order the
\* systems issued them
apply_deferred ==
    /\ pc = "apply_deferred"
    /\ LET w == world_after(commands)
       IN  /\ tiles' = w.map.tiles
           /\ rooms' = w.map.rooms
           /\ spawn_position' = w.map.spawn_position
           /\ down_stairs_pos' = w.map.down_stairs_pos
           /\ up_stairs_pos' = w.map.up_stairs_pos
           /\ current_level' = w.map.current_level
           /\ players' = w.players \o w.spawned_players
           /\ tile_entities' = w.tile_entities \o w.spawned_tiles
    /\ commands' = <<>>
    /\ pc' = "keyboard_input"
    /\ KeepGeneration
    /\ UNCHANGED <<dungeon_state, input_state, animation_state, keyboard>>

NextGame ==
    \/ keyboard_input
    \/ handle_input
    \/ queue_next_movement
    \/ update_sprite_positions
    \/ move_player
    \/ animate_player_movement
    \/ regenerate_map_system
    \/ handle_stairs_system
    \/ apply_deferred

SpecGame == InitGame /\ [][NextGame]_vars

(***************************************************************************)
(* Properties of the returned map                                          *)
(***************************************************************************)
Returned == pc = "done"

StairsDownTiles == {c \in DOMAIN tiles : tiles[c] = "StairsDown"}

StairsUpTiles == {c \in DOMAIN tiles : tiles[c] = "StairsUp"}

\* C1: at every point of the generation and in the returned map, every cell
\* of row 0, row MAP_HEIGHT-1, column 0 and column MAP_WIDTH-1 is Wall.
BorderInvariant ==
    /\ \A x \in 0 .. MAP_WIDTH - 1 :
          At(tiles, x, 0) = "Wall" /\ At(tiles, x, MAP_HEIGHT - 1) = "Wall"
    /\ \A y \in 0 .. MAP_HEIGHT - 1 :
          At(tiles, 0, y) = "Wall" /\ At(tiles, MAP_WIDTH - 1, y) = "Wall"
    /\ \A c \in DOMAIN tiles : c \in Cells

\* a returned map where an extra corridor was carved up to the last column
\* before the ring, which no room reaches
BorderReached ==
    /\ Returned
    /\ \E y \in 1 .. MAP_HEIGHT - 2 : At(tiles, MAP_WIDTH - 2, y) # "Wall"

\* C2: a returned map of level 0 has down stairs and no up stairs, one of a
\* level above 0 has both, and two recorded positions are never the same cell.
StairCardinality ==
    Returned =>
        /\ down_stairs_pos # None
        /\ (current_level = 0 => up_stairs_pos = None)
        /\ (current_level > 0 => up_stairs_pos # None)
        /\ (up_stairs_pos # None => up_stairs_pos # down_stairs_pos)

\* C3: a returned map holds exactly one StairsDown tile, at down_stairs_pos;
\* it holds a StairsUp tile iff current_level > 0, at most one, at up_stairs_pos.
StairTilesAgree ==
    Returned =>
        /\ StairsDownTiles = {down_stairs_pos}
        /\ Cardinality(StairsUpTiles) <= 1
        /\ (StairsUpTiles # {} <=> current_level > 0)
        /\ (StairsUpTiles # {} => StairsUpTiles = {up_stairs_pos})

\* C4: in a returned map that holds a Floor tile, the tile at spawn_position
\* is Floor.
SpawnValidity ==
    Returned =>
        (floor_tiles_of(tiles) # {} =>
            At(tiles, spawn_position[1], spawn_position[2]) = "Floor")

\* the empty cells between two rooms along x, and along y
GapX(a, b) == Max(b.x - (a.x + a.width), a.x - (b.x + b.width))

GapY(a, b) == Max(b.y - (a.y + a.height), a.y - (b.y + b.height))

\* C5: any two rooms of the accepted list are at least 2 cells apart on one
\* axis (their boxes grown by one tile on every side do not meet), and a room
\* joins the list only when Room::overlaps is false against all rooms before it.
NoOverlap ==
    /\ \A i, j \in 1 .. Len(rooms) :
          i < j => GapX(rooms[i], rooms[j]) >= 2 \/ GapY(rooms[i], rooms[j]) >= 2
    /\ \A j \in 1 .. Len(rooms) : \A i \in 1 .. j - 1 : ~overlaps(rooms[j], rooms[i])

\* two accepted rooms side by side with exactly two cells between them
RoomsTwoApart ==
    \E i, j \in 1 .. Len(rooms) :
        /\ i < j
        /\ GapX(rooms[i], rooms[j]) = 2
        /\ GapY(rooms[i], rooms[j]) < 0

\* C6: once room placement has returned, the room list holds at least one
\* room, so that add_stairs has a room to pick from.
NonEmptyRooms ==
    pc \notin {"generate_map", "generate_rooms"} => Len(rooms) >= 1

\* stair placement on a list of one room, made after every attempt but the
\* first was rejected
StairsOnOnlyRoom ==
    /\ Returned
    /\ Len(rooms) = 1
    /\ down_stairs_pos # None

\* C7: two runs fed the same values by the injected random source have the
\* same tiles, the same rooms, the same biomes and the same stair positions.
Determinism ==
    twin.on =>
        /\ twin.tiles = tiles
        /\ twin.rooms = rooms
        /\ twin.biomes = biomes
        /\ twin.down_stairs_pos = down_stairs_pos
        /\ twin.up_stairs_pos = up_stairs_pos

\* two returned maps of a level above 0 whose spawn draws differed
TwoRunsReturned ==
    /\ Returned
    /\ twin.on
    /\ twin.spawn_position # spawn_position
    /\ up_stairs_pos # None
    /\ Len(rooms) >= 2

\* C8: two runs fed the same values by the injected random source return the
\* same spawn_position.
SingleRandomStream ==
    (twin.on /\ Returned) => twin.spawn_position = spawn_position

\* C9: after generation one biome is returned by get_biome_at for every cell
\* of the map, and Caves is returned for every position outside the map.
BiomeTotalCoverage ==
    pc \in {"find_spawn_position", "new_level", "add_stairs", "done"} =>
        /\ \E b \in {BiomeType[i] : i \in 1 .. Len(BiomeType)} :
              \A c \in Cells : get_biome_at(biomes, c[1], c[2]) = b
        /\ \A x \in 0 .. MAP_WIDTH + 1 : \A y \in 0 .. MAP_HEIGHT + 1 :
              (x >= MAP_WIDTH \/ y >= MAP_HEIGHT) => get_biome_at(biomes, x, y) = "Caves"

\* a returned map whose biome is not the default, read at a cell of no room
BiomeOutsideRooms ==
    /\ Returned
    /\ get_biome_at(biomes, 0, 0) # "Caves"

\* the 1-tile inset of room r along one side, or its middle when the side is
\* too short
InInset(v, lo, side) ==
    IF side > 2 THEN lo + 1 <= v /\ v <= lo + side - 2 ELSE v = lo + side \div 2

\* C10: in a returned map down_stairs_pos lies in the 1-tile inset of the
\* bounding box of some room of the list.
DownStairsInRoomInterior ==
    Returned =>
        \E i \in 1 .. Len(rooms) :
            /\ InInset(down_stairs_pos[1], rooms[i].x, rooms[i].width)
            /\ InInset(down_stairs_pos[2], rooms[i].y, rooms[i].height)

\* down stairs drawn at the far corner of the inset of a room
DownStairsAtInsetCorner ==
    /\ Returned
    /\ \E i \in 1 .. Len(rooms) :
          /\ rooms[i].width > 3
          /\ down_stairs_pos = <<rooms[i].x + rooms[i].width - 2,
                                 rooms[i].y + rooms[i].height - 2>>

\* C11: a map returned by new_level(level, previous_map) has current_level =
\* level whatever previous_map is, one returned by new() has current_level = 0,
\* and the previous map the caller passed is as it was.
LevelTag ==
    pc \in {"add_stairs", "up_stairs_room", "done"} =>
        /\ (frame.fn = "new" => current_level = 0)
        /\ (frame.fn = "new_level" => current_level = frame.level)
        /\ frame.previous_map \in {None, PreviousMap}

\* a map returned by new_level for a level other than the one after the
\* previous map's
LevelNotFromPrevious ==
    /\ Returned
    /\ frame.fn = "new_level"
    /\ frame.previous_map # None
    /\ current_level # frame.previous_map.current_level + 1

\* C12: at every point of the generation the next step cannot panic: every
\* cell written lies in the grid, every usize coordinate held is a grid
\* position (no subtraction went below zero), every list that is indexed holds
\* the index, and every range a value is drawn from next is not empty.
NoPanic ==
    /\ \A c \in DOMAIN tiles : InGrid(c[1], c[2])
    /\ DOMAIN biomes = Cells
    /\ pc = "generate_rooms" =>
          \A category \in {"Large", "Medium", "Small"} : \A side \in DimRange(category) :
              1 < MAP_WIDTH - side - 1 /\ 1 < MAP_HEIGHT - side - 1
    /\ pc = "carve_pillared" =>
          LET r == rooms[frame.i]
          IN  r.x + 2 < r.x + r.width - 2 /\ r.y + 2 < r.y + r.height - 2
    /\ pc \in {"extra_connections", "redraw_to"} => Len(rooms) - 1 >= 0 /\ 0 < Len(rooms)
    /\ pc \in {"corridors", "winding", "branching", "branches", "door"} =>
          \A k \in 1 .. Len(frame.connections) :
              /\ frame.connections[k][1] \in 0 .. Len(rooms) - 1
              /\ frame.connections[k][2] \in 0 .. Len(rooms) - 1
    /\ pc \in {"winding", "branching", "branches"} =>
          InGrid(frame.current_x, frame.current_y)
    /\ pc = "branches" => 1 < Len(frame.corridor_points) - 1
    /\ pc = "secret_attempt" => 3 < MAP_WIDTH - 6 /\ 3 < MAP_HEIGHT - 6
    /\ pc \in {"add_stairs", "up_stairs_room"} => 0 < Len(rooms)
    /\ pc \in {"new_level", "add_stairs", "up_stairs_room", "done"} => InGrid(spawn_position[1], spawn_position[2])

\* the draw of branch_idx from the shortest list of corridor points a
\* branching corridor can build
ShortestBranchingCorridor ==
    /\ pc = "branches"
    /\ Len(frame.corridor_points) = 4

\* the cells of S that can be walked to from the cells of frontier
RECURSIVE Flood(_, _, _)
Flood(S, frontier, seen) ==
    LET next == {c \in S \ seen :
                    \E d \in {<<1, 0>>, <<-1, 0>>, <<0, 1>>, <<0, -1>>} :
                        <<c[1] + d[1], c[2] + d[2]>> \in frontier}
    IN  IF next = {} THEN seen ELSE Flood(S, next, seen \cup next)

NonWall == {c \in DOMAIN tiles : tiles[c] # "Wall"}

\* a path of 4-adjacent non-Wall cells joins a and b
Joined(a, b) == a \in NonWall /\ b \in Flood(NonWall, {a}, {a})

\* connect_rooms has carved every edge and runs its last call, or has returned
AllEdgesCarved ==
    \/ pc = "add_secret_rooms"
    \/ pc \in {"add_extra_corridors", "extra_corridor", "extra_step"}
          /\ frame.caller = "connect_rooms"

\* C13: once connect_rooms has carved its edges, and when it returns, the
\* centers of any two rooms are joined by a path of 4-adjacent non-Wall cells;
\* between two edges, the ends of every edge carved so far are still joined.
NavigableNetwork ==
    /\ (AllEdgesCarved /\ Len(rooms) >= 2) =>
           \A i \in 2 .. Len(rooms) : Joined(center(rooms[1]), center(rooms[i]))
    /\ pc = "corridors" =>
           \A k \in 1 .. frame.k - 1 :
               Joined(center(rooms[frame.connections[k][1] + 1]),
                      center(rooms[frame.connections[k][2] + 1]))

\* connect_rooms has returned after stamping a door at the end of a corridor
ConnectedWithDoor ==
    /\ pc = "add_secret_rooms"
    /\ Len(rooms) >= 2
    /\ \E c \in DOMAIN tiles : tiles[c] = "Door"

\* the grid add_stairs probed: the returned one without the up stairs moved
\* to a neighbour
Probed ==
    IF up_stairs_pos # None /\ up_stairs_pos # down_stairs_pos
    THEN Put(tiles, {up_stairs_pos}, "Floor") ELSE tiles

\* C15: on a level above 0, when the cell computed for the up stairs is the
\* down stairs' cell, the first Floor neighbour becomes StairsUp; with no Floor
\* neighbour up_stairs_pos stays None and the StairsDown tile is intact.
UpStairsFallback ==
    (Returned /\ current_level > 0 /\ frame.up = down_stairs_pos) =>
        LET moved == first_free_neighbour(Probed, down_stairs_pos) IN
        /\ At(tiles, down_stairs_pos[1], down_stairs_pos[2]) = "StairsDown"
        /\ IF moved # None
           THEN up_stairs_pos = moved /\ At(tiles, moved[1], moved[2]) = "StairsUp"
           ELSE up_stairs_pos = None

\* C16: the cell stamped StairsDown and the cell stamped StairsUp were Floor
\* immediately before add_stairs stamped them.
StairsOnFloor ==
    [][/\ (down_stairs_pos' # None /\ down_stairs_pos' # down_stairs_pos) =>
              At(tiles, down_stairs_pos'[1], down_stairs_pos'[2]) = "Floor"
       /\ (up_stairs_pos' # None /\ up_stairs_pos' # up_stairs_pos) =>
              At(tiles, up_stairs_pos'[1], up_stairs_pos'[2]) = "Floor"]_vars

\* C17: while the corridor of an edge is carved, every cell that is written
\* becomes Floor and lies in the interior, and a Floor cell stays Floor.
CorridorOnlyAddsFloor ==
    [][(pc \in {"corridors", "winding", "branching", "branches"} =>
          \A c \in Cells :
             ((At(tiles', c[1], c[2]) # At(tiles, c[1], c[2]) =>
                  (At(tiles', c[1], c[2]) = "Floor" /\ Interior(c[1], c[2])))
              /\ (At(tiles, c[1], c[2]) = "Floor" => At(tiles', c[1], c[2]) = "Floor")))]_vars

\* C18: when add_secret_rooms carves a secret room, no cell it makes Floor is
\* 4-adjacent to a cell that was Floor before the carve.
SecretRoomSealed ==
    [][(pc = "secret_attempt" =>
          \A c \in Cells :
             ((At(tiles', c[1], c[2]) = "Floor" /\ At(tiles, c[1], c[2]) # "Floor") =>
                 \A d \in {<<1, 0>>, <<-1, 0>>, <<0, 1>>, <<0, -1>>} :
                    At(tiles, c[1] + d[1], c[2] + d[2]) # "Floor"))]_vars

\* C19: the extra-corridor pass runs once in a generation: a returned level
\* has had between 2 and 4 extra corridors started (its rooms give a Floor
\* cell beside a Wall), and each run is at most 14 cells long.
ExtraCorridorsPerLevel ==
    /\ extra_corridors <= 4
    /\ (Returned => extra_corridors >= 2)
    /\ (pc = "extra_step" => frame.steps \in 1 .. 14)

\* C20: the edge list of connect_rooms holds every chain edge (i, i+1), the
\* wrap-around edge (n-1, 0) exactly when n >= 3, no edge from a room to
\* itself and no unordered pair twice; at most n/2 edges are random extras.
ConnectionGraphShape ==
    pc \in {"extra_connections", "redraw_to", "corridors", "winding", "branching",
            "branches", "door"} =>
        LET n == Len(rooms)
            connections == frame.connections
            base == (n - 1) + (IF n >= 3 THEN 1 ELSE 0)
        IN
        /\ n >= 2
        /\ \A i \in 0 .. n - 2 : contains(connections, <<i, i + 1>>)
        /\ (contains(connections, <<n - 1, 0>>) <=> n >= 3)
        /\ \A k \in 1 .. Len(connections) :
              /\ connections[k][1] # connections[k][2]
              /\ \A j \in 1 .. k - 1 :
                    /\ connections[j] # connections[k]
                    /\ connections[j] # <<connections[k][2], connections[k][1]>>
        /\ Len(connections) >= base
        /\ Len(connections) <= base + n \div 2

\* four rooms joined by the chain, the wrap-around edge and a random extra edge
ExtraEdgeAdded ==
    /\ pc = "corridors"
    /\ Len(rooms) = 4
    /\ Len(frame.connections) = 5
    /\ frame.connections[5] \in {<<0, 2>>, <<2, 0>>, <<1, 3>>, <<3, 1>>}

\* both rooms of the edge being carved have an area of 81 cells or more
BothEndsLarge ==
    LET e == frame.connections[frame.k]
        from == rooms[e[1] + 1]
        to == rooms[e[2] + 1]
    IN  from.width * from.height >= 81 /\ to.width * to.height >= 81

\* C21: an edge between two Large rooms or longer than 20 gets the branching
\* corridor; otherwise one longer than 15 gets the branching or the winding
\* corridor; the Z and the simple L corridor are carved only for an edge of
\* distance <= 15 whose rooms are not both Large.
CorridorStyleHeuristic ==
    [][((pc = "corridors" /\ frame.k <= Len(frame.connections)) =>
          LET d == distance(Edge[1], Edge[2]) IN
          /\ (BothEndsLarge \/ d > 20) => pc' = "branching"
          /\ d > 15 => pc' \in {"branching", "winding"}
          /\ pc' = "door" => (d <= 15 /\ ~BothEndsLarge))]_vars

\* the corridor between two Large rooms 15 or less apart is a branching one
BranchingBetweenLargeRooms ==
    /\ pc = "branching"
    /\ Len(frame.corridor_points) = 1
    /\ BothEndsLarge
    /\ distance(Edge[1], Edge[2]) <= 15

\* C22: a Door stamped by connect_rooms replaces a Wall cell of the interior
\* beside one end of the edge just carved; when it is stamped that end and the
\* cell beyond the door are both Floor.
ProperDoorways ==
    [][(pc = "door" =>
          \A c \in Cells :
             (At(tiles', c[1], c[2]) # At(tiles, c[1], c[2]) =>
                 /\ At(tiles', c[1], c[2]) = "Door"
                 /\ At(tiles, c[1], c[2]) = "Wall"
                 /\ Interior(c[1], c[2])
                 /\ \E i \in 1 .. 2 :
                       LET e == Edge[i]
                           beyond == <<2 * c[1] - e[1], 2 * c[2] - e[2]>>
                       IN  /\ distance(c, e) = 1
                           /\ At(tiles, e[1], e[2]) = "Floor"
                           /\ At(tiles, beyond[1], beyond[2]) = "Floor"))]_vars

\* a door has just been stamped for the first edge
DoorStamped ==
    /\ pc = "corridors"
    /\ frame.k = 2
    /\ \E c \in DOMAIN tiles : tiles[c] = "Door"

\* C23: every accepted room has x >= 1, y >= 1, x + width <= MAP_WIDTH - 1
\* and y + height <= MAP_HEIGHT - 1, and while rooms are drawn the range of
\* positions of every size a room can have is not empty.
RoomsFitWithMargin ==
    /\ \A i \in 1 .. Len(rooms) :
          /\ rooms[i].x >= 1 /\ rooms[i].y >= 1
          /\ rooms[i].x + rooms[i].width <= MAP_WIDTH - 1
          /\ rooms[i].y + rooms[i].height <= MAP_HEIGHT - 1
    /\ pc = "generate_rooms" =>
          \A side \in 3 .. 14 :
              GenRangeFull(1, MAP_WIDTH - side - 1) # {}
              /\ GenRangeFull(1, MAP_HEIGHT - side - 1) # {}

\* a room accepted at the last position its width allows
RoomAtFarEdge ==
    \E i \in 1 .. Len(rooms) : rooms[i].x = MAP_WIDTH - rooms[i].width - 2

\* the cells of a room's bounding box that are not Floor
BoxWalls(r) ==
    {c \in (r.x .. r.x + r.width - 1) \X (r.y .. r.y + r.height - 1) :
        At(tiles, c[1], c[2]) # "Floor"}

\* C24: once a SmallChamber is carved every cell of its bounding box is Floor
\* except at most its top-right corner, re-walled only when the room is at
\* least 4x4; a 3x3 one keeps 7 or more Floor cells, its center among them.
SmallChamberCarve ==
    \A i \in 1 .. Len(rooms) :
       (/\ rooms[i].room_type = "SmallChamber"
        /\ pc = "connect_rooms" \/ (pc = "carve" /\ frame.i > i)) =>
           LET r == rooms[i] IN
           /\ BoxWalls(r) \subseteq {<<r.x + r.width - 1, r.y>>}
           /\ BoxWalls(r) # {} => (r.width >= 4 /\ r.height >= 4)
           /\ (r.width = 3 /\ r.height = 3) =>
                  /\ r.width * r.height - Cardinality(BoxWalls(r)) >= 7
                  /\ At(tiles, center(r)[1], center(r)[2]) = "Floor"

\* a carved SmallChamber with its corner re-walled
SmallChamberCornerWalled ==
    /\ pc = "connect_rooms"
    /\ rooms[1].room_type = "SmallChamber"
    /\ At(tiles, rooms[1].x + rooms[1].width - 1, rooms[1].y) = "Wall"
    /\ At(tiles, rooms[1].x, rooms[1].y) = "Floor"

\* C26: in every returned map a path of 4-adjacent non-Wall cells leads
\* from spawn_position to the down stairs, and on levels above 0 from the up
\* stairs to the down stairs.
StairsReachable ==
    Returned =>
        /\ Joined(spawn_position, down_stairs_pos)
        /\ (current_level > 0 => Joined(up_stairs_pos, down_stairs_pos))

\* the cell is a Door or a SecretDoor of the active map t
DoorCell(t, pos) == At(t, pos[1], pos[2]) \in {"Door", "SecretDoor"}

\* C25: the player's Position changes to a Door or SecretDoor cell only in a
\* pass where the interact input is set, for the direct move of move_player
\* and for the queued and continued moves of animate_player_movement.
DoorsNeedInteraction ==
    [][(\A i \in DOMAIN players \cap DOMAIN players' :
           (/\ players'[i].position # players[i].position
            /\ DoorCell(tiles', players'[i].position))
           => input_state.interact)]_vars

\* the maps a TileMap holds StairsUp tiles on
HasStairsUp(map) == \E c \in DOMAIN map.tiles : map.tiles[c] = "StairsUp"

\* C27: after any sequence of descend, ascend and regenerate,
\* current_level_index < levels.len(), levels[k].current_level = k, and
\* levels[0] is the only stored map without up stairs.
LevelHistoryInvariant ==
    LET levels == dungeon_state.levels IN
    (levels # <<>>) =>
        /\ dungeon_state.current_level_index >= 0
        /\ dungeon_state.current_level_index < Len(levels)
        /\ \A k \in 0 .. Len(levels) - 1 :
              /\ levels[k + 1].current_level = k
              /\ (levels[k + 1].up_stairs_pos = None) <=> (k = 0)
              /\ HasStairsUp(levels[k + 1]) <=> (k > 0)

\* the player went down twice and came up once
LevelHistoryWalked ==
    /\ pc = "keyboard_input"
    /\ Len(players) = 1
    /\ Len(dungeon_state.levels) = 3
    /\ dungeon_state.current_level_index = 1

\* the level changes among the queued commands
Transitions(cmds) ==
    Cardinality({i \in DOMAIN cmds : cmds[i].op = "insert_resource"})

\* C28: one SHIFT+E press performs at most one level transition: the descend
\* and the ascend branch are never both run for the same press, and
\* current_level_index changes by +1, -1 or 0.
OneTransitionPerPress ==
    [][(pc = "handle_stairs_system" =>
          /\ Transitions(commands') - Transitions(commands) <= 1
          /\ dungeon_state'.current_level_index - dungeon_state.current_level_index
                \in {-1, 0, 1})]_vars

\* C29: after setup and after every completed descend, ascend or regenerate
\* step the active TileMap is levels[current_level_index], as a whole.
ActiveMapIsCurrentLevel ==
    pc = "keyboard_input" =>
        ActiveMap = dungeon_state.levels[dungeon_state.current_level_index + 1]

\* the player stands on the third level after two descents
ThirdLevelActive ==
    /\ pc = "keyboard_input"
    /\ Len(players) = 1
    /\ dungeon_state.current_level_index = 2
    /\ current_level = 2

\* C30: descend and ascend never change a stored map (descend only appends,
\* when the target index is levels.len()), regenerate replaces only
\* levels[current_level_index], and after an ascent the stored map of the
\* level above is shown with the player on that map's down_stairs_pos.
VisitedLevelsRetained ==
    [][(LET old == dungeon_state.levels
            new == dungeon_state'.levels
            index == dungeon_state.current_level_index
            shown == world_after(commands')
        IN  /\ pc = "handle_stairs_system" =>
                  /\ Len(new) >= Len(old)
                  /\ \A k \in DOMAIN old : new[k] = old[k]
                  /\ Len(new) > Len(old) =>
                        (Len(new) = Len(old) + 1 /\ index + 1 = Len(old))
                  /\ (/\ Transitions(commands') > Transitions(commands)
                      /\ dungeon_state'.current_level_index <= index) =>
                        /\ shown.map = old[dungeon_state'.current_level_index + 1]
                        /\ \A p \in {shown.players[i] : i \in DOMAIN shown.players}
                                    \cup {shown.spawned_players[i] :
                                             i \in DOMAIN shown.spawned_players} :
                              p.position = shown.map.down_stairs_pos
            /\ pc = "regenerate_map_system" =>
                  /\ Len(new) = Len(old)
                  /\ \A k \in DOMAIN old \ {index + 1} : new[k] = old[k]
            /\ pc \notin {"handle_stairs_system", "regenerate_map_system"} =>
                  new = old)]_vars

\* C14: every call runs the whole pipeline to its return, whatever the random
\* source gives, the draws of the re-draw loops included.
Terminates == <>Returned

====
